---- MODULE Spec2Model ----
(***************************************************************************)
(* A state-machine model of the enkf_node abstraction of ERT               *)
(* (devel/libenkf/src/enkf_node.c): one node, its capability table, its    *)
(* (__memory_allocated, __modified, __report_step, __state) bookkeeping    *)
(* and every public operation that reads or changes it.                    *)
(*                                                                         *)
(* The kind implementations (multz.c, field.c, ...) are not part of the    *)
(* model: a call through a capability pointer is recorded, with the value  *)
(* of __memory_allocated at the moment of the call, in the history         *)
(* variable last.  abort() and util_abort() end the process: the model     *)
(* records status = "aborted" and takes no further step.                   *)
(***************************************************************************)
EXTENDS Integers, Sequences, FiniteSets, TLC

\* Largest report step passed to an operation.
MaxReportStep == 1

\* The report step of a node that holds nothing (enkf_node_alloc_empty).
InitReportStep == -1

ReportSteps == InitReportStep .. MaxReportStep

\* state_enum
States == {"undefined", "forecast", "analyzed"}

\* enkf_impl_type values of the switch in enkf_node_alloc_empty; "UNKNOWN"
\* stands for every value that reaches its default branch.
ImplTypes == {"GEN_KW", "MULTZ", "RELPERM", "MULTFLT", "WELL", "SUMMARY",
              "HAVANA_FAULT", "FIELD", "EQUIL", "STATIC", "GEN_DATA", "UNKNOWN"}

\* Function pointers of enkf_node_struct that enkf_node_alloc_empty sets to
\* NULL before the switch.
InitializedPointers == {"realloc_data", "alloc", "ecl_write", "ecl_load", "fread_f",
                        "fwrite_f", "copyc", "initialize", "serialize", "deserialize",
                        "freef", "free_data", "fprintf_results", "iget", "get_index"}

\* Function pointers of enkf_node_struct that enkf_node_alloc_empty never
\* assigns: the struct comes from util_malloc, so their value is
\* indeterminate.
UninitializedPointers == {"clear", "scale", "iadd", "imul", "isqrt", "iaddsqr"}

\* The pointers a kind registers (the switch of enkf_node_alloc_empty).
Registered(k) ==
  CASE k = "GEN_KW" ->
         {"realloc_data", "alloc", "ecl_write", "fread_f", "fwrite_f", "copyc",
          "initialize", "serialize", "deserialize", "freef", "free_data",
          "fprintf_results"}
    [] k = "MULTZ" ->
         {"realloc_data", "alloc", "ecl_write", "fread_f", "fwrite_f", "copyc",
          "initialize", "serialize", "deserialize", "freef", "free_data"}
    [] k = "RELPERM" ->
         {"alloc", "ecl_write", "fread_f", "fwrite_f", "copyc", "initialize",
          "serialize", "deserialize", "freef", "free_data"}
    [] k = "MULTFLT" ->
         {"realloc_data", "alloc", "ecl_write", "fread_f", "fwrite_f", "copyc",
          "initialize", "serialize", "deserialize", "freef", "free_data",
          "fprintf_results"}
    [] k = "WELL" ->
         {"ecl_load", "realloc_data", "alloc", "fread_f", "fwrite_f", "copyc",
          "serialize", "deserialize", "freef", "free_data", "fprintf_results"}
    [] k = "SUMMARY" ->
         {"ecl_load", "realloc_data", "alloc", "fread_f", "fwrite_f", "copyc",
          "serialize", "deserialize", "freef", "free_data"}
    [] k = "HAVANA_FAULT" ->
         {"realloc_data", "alloc", "ecl_write", "fread_f", "fwrite_f", "copyc",
          "serialize", "deserialize", "freef", "free_data", "initialize",
          "fprintf_results"}
    [] k = "FIELD" ->
         {"realloc_data", "alloc", "ecl_write", "ecl_load", "fread_f", "fwrite_f",
          "copyc", "initialize", "serialize", "deserialize", "freef", "free_data",
          "iget"}
    [] k = "EQUIL" ->
         {"alloc", "ecl_write", "fread_f", "fwrite_f", "copyc", "initialize",
          "serialize", "deserialize", "freef", "free_data"}
    [] k = "STATIC" ->
         {"realloc_data", "ecl_write", "alloc", "fread_f", "fwrite_f", "copyc",
          "freef", "free_data"}
    [] k = "GEN_DATA" ->
         {"realloc_data", "alloc", "fread_f", "fwrite_f", "initialize", "copyc",
          "freef", "free_data", "ecl_write", "serialize", "deserialize"}
    [] OTHER -> {}

VARIABLES
  impl_type,         \* enkf_config_node_get_impl_type(node->config)
  data,              \* node->data != NULL
  memory_allocated,  \* node->__memory_allocated
  modified,          \* node->__modified
  report_step,       \* node->__report_step
  state,             \* node->__state
  status,            \* "running", or how the process ended
  last,              \* the last operation: arguments, outcome, capability calls
  prev,              \* the operation before the last one, in short
  valid_args,        \* every call so far named a report step >= 0 and a defined state
  cache_ops_only,    \* every call so far was one of CacheOps
  store,             \* the snapshots written for the node, and whether the data of the
                     \* node is the snapshot under (__state, __report_step)
  scenario           \* how many steps of Scenario the calls so far are, -1 if they are
                     \* not the start of it

\* The data of the node and the serialization of it into the vector of the
\* update, enkf_serialize.h.
VARIABLES
  payload,           \* the elements of node->data
  serial_vector,     \* the elements of the serial_vector_type of the caller
  serial_state,      \* node->serial_state
  elements_written,  \* sum of the returns of enkf_node_serialize since the last clear
  flattened,         \* per element: times copied to the vector since the last clear
  vector_updated     \* the caller wrote to the vector after serialize last wrote to it

\* The two operands of the arithmetic of rms_tagkey.c.
VARIABLES
  tagkey,            \* the rms_tagkey_type updated in place
  delta,             \* the rms_tagkey_type it is combined with
  tagkey_last        \* the last operation on tagkey: arguments, operands before, outcome

\* The log of log.c and the threads that call it.
VARIABLES
  logh,              \* the log_struct: filename, stream (with the fd of it), log_level, mutex
  streams,           \* the FILE objects fopen has returned: file, open, buffered lines
  files,             \* per file name: the lines in the file
  threads,           \* per thread: where it is in log_add_message or log_reset_filename
  log_status         \* "running", or how the process ended

\* A tagkey of rms_tagkey.c with the buffer of its data, a copy of it, and the
\* stream it is written to.
VARIABLES
  heap,              \* per buffer: the elements in it
  src_tagkey,        \* the rms_tagkey_type that is copied, changed, loaded and written
  new_tagkey,        \* the rms_tagkey_type that rms_tagkey_copyc returned
  rms_file,          \* what rms_tagkey_fwrite has put in the stream
  rms_last           \* the last call: outcome, failed transfers and allocations, the
                     \* data of both tagkeys before it

\* A workflow of workflow.c and the file it is compiled from.
VARIABLES
  script,            \* the workflow_struct: compiled, compile_time, cmd_list
  src_file,          \* the file script->src_file names: whether it exists, its
                     \* lines, whether config_parse accepts it, its mtime
  workflow_last      \* the last call of workflow_try_compile: what it found and
                     \* returned, and whether an earlier call has compiled the file

nodeVars == <<impl_type, data, memory_allocated, modified, report_step, state, status, last,
             prev, valid_args, cache_ops_only, store, scenario>>

serialVars == <<payload, serial_vector, serial_state, elements_written, flattened,
               vector_updated>>

tagkeyVars == <<tagkey, delta, tagkey_last>>

logVars == <<logh, streams, files, threads, log_status>>

rmsVars == <<heap, src_tagkey, new_tagkey, rms_file, rms_last>>

workflowVars == <<script, src_file, workflow_last>>

vars == <<nodeVars, serialVars, tagkeyVars, logVars, rmsVars, workflowVars>>

\* The bookkeeping fields of the node.
Node == [data |-> data, memory_allocated |-> memory_allocated, modified |-> modified,
         report_step |-> report_step, state |-> state]

\* What last keeps as the return value of a function that returns void.
void == [void |-> TRUE]

\* One call through a capability pointer, with __memory_allocated as it was
\* when the call was made.
Call(f, mem) == [f |-> f, mem |-> mem]

\* One call through a capability pointer whose return value the node looks at.
CallReturning(f, mem, ret) == [f |-> f, mem |-> mem, ret |-> ret]

\* FUNC_ASSERT(func) passes: the pointer is not NULL.
FUNC_ASSERT(func) == func \in Registered(impl_type)


\* Largest ensemble member index passed to enkf_node_initialize.
MaxIens == 1

\* How the process can go on after a call through a capability pointer.  The kind
\* code dereferences its data: with the data released (xxx_free_data() frees it
\* and sets the pointer to NULL) the behaviour is undefined, so the call may
\* return or the process may die.
CapabilityOutcomes(mem) == IF mem THEN {"returned"} ELSE {"returned", "undefined"}

\* What prev keeps of an operation l that last recorded.
Summary(l) == [op |-> l.op, rs |-> l.rs, st |-> l.st, outcome |-> l.outcome,
               modified |-> l.pre.modified]

\* The operations of the cache state machine.
CacheOps == {"enkf_node_initialize", "enkf_node_fread", "enkf_node_ecl_load",
             "enkf_node_fwrite", "enkf_node_deserialize", "enkf_node_free_data"}

\* The report step and state handed to op are those of a stored snapshot.
ArgsValid(op, rs, st) ==
  CASE op \in {"enkf_node_fread", "enkf_node_fwrite"} -> rs >= 0 /\ st # "undefined"
    [] op \in {"enkf_node_ecl_load", "enkf_node_ecl_load_static"} -> rs >= 0
    [] OTHER -> TRUE

\* The capability calls that leave other values in the data of the node.
DataWriters == {"alloc", "realloc_data", "free_data", "initialize", "ecl_load",
                "deserialize"}

\* The store after an operation that returned: fwrite_f that reports data written
\* leaves the data of the node as the snapshot of (st, rs); fread_f leaves the
\* snapshot of (st, rs) as the data of the node, and is a valid read when that
\* snapshot was written; a call of DataWriters and ecl_static_kw_init leave
\* data that is no snapshot.  A store that is not followed stays as it is.
StoreAfter(op, rs, st, outcome, calls, ret) ==
  LET Called(F) == \E i \in DOMAIN calls : calls[i].f \in F
  IN IF ~store.followed \/ outcome # "returned"
       THEN store
       ELSE CASE Called({"fread_f"}) ->
                   [store EXCEPT !.in_sync = (<<st, rs>> \in store.written),
                                 !.reads_valid = (@ /\ <<st, rs>> \in store.written)]
              [] Called({"fwrite_f"}) ->
                   IF ret
                     THEN [store EXCEPT !.in_sync = TRUE,
                                        !.written = @ \cup {<<st, rs>>}]
                     ELSE [store EXCEPT !.in_sync =
                                          (@ /\ <<st, rs>> = <<state, report_step>>)]
              [] Called(DataWriters) \/ op = "enkf_node_ecl_load_static" ->
                   [store EXCEPT !.in_sync = FALSE]
              [] OTHER -> store

\* The calls of the scenario: initialize member 0, write the node as the analyzed
\* state of report step 0, load that state, scale, serialize.
Scenario ==
  <<[op |-> "enkf_node_initialize", rs |-> InitReportStep, st |-> "undefined"],
    [op |-> "enkf_node_fwrite", rs |-> 0, st |-> "analyzed"],
    [op |-> "enkf_node_fread", rs |-> 0, st |-> "analyzed"],
    [op |-> "enkf_node_scale", rs |-> InitReportStep, st |-> "undefined"],
    [op |-> "enkf_node_serialize", rs |-> InitReportStep, st |-> "undefined"]>>

\* scenario after one more call.
ScenarioAfter(op, rs, st, ie) ==
  IF /\ scenario >= 0
     /\ scenario < Len(Scenario)
     /\ Scenario[scenario + 1] = [op |-> op, rs |-> rs, st |-> st]
     /\ ie = 0
    THEN scenario + 1
    ELSE -1

\* Record the operation that ran in last, the one before it in prev, and set status
\* from the outcome.
Record(op, rs, st, ie, outcome, calls, ret) ==
  /\ scenario' = ScenarioAfter(op, rs, st, ie)
  /\ store' = StoreAfter(op, rs, st, outcome, calls, ret)
  /\ last' = [op |-> op, rs |-> rs, st |-> st, iens |-> ie, outcome |-> outcome,
              calls |-> calls, ret |-> ret, pre |-> Node]
  /\ prev' = Summary(last)
  /\ valid_args' = (valid_args /\ ArgsValid(op, rs, st))
  /\ cache_ops_only' = (cache_ops_only /\ op \in CacheOps)
  /\ status' = IF outcome = "returned" THEN "running" ELSE outcome

\* An operation that reads and writes nothing but the bookkeeping fields of the
\* node: record it.
Finish(op, rs, st, ie, outcome, calls, ret) ==
  /\ Record(op, rs, st, ie, outcome, calls, ret)
  /\ UNCHANGED <<serialVars, tagkeyVars, logVars, rmsVars, workflowVars>>

\* The operation ended the process (abort(), util_abort(), or undefined
\* behaviour) before it assigned any field of the node.
Stop(op, rs, st, ie, outcome, calls) ==
  /\ Finish(op, rs, st, ie, outcome, calls, void)
  /\ UNCHANGED <<impl_type, data, memory_allocated, modified, report_step, state>>

\* enkf_node_ensure_memory, as a function of the current node: whether its
\* FUNC_ASSERT aborts, the capability calls it makes, and __memory_allocated
\* afterwards.
enkf_node_ensure_memory ==
  IF ~FUNC_ASSERT("realloc_data")
    THEN [aborted |-> TRUE, calls |-> <<>>, memory_allocated |-> memory_allocated]
    ELSE IF ~memory_allocated
      THEN [aborted |-> FALSE, calls |-> <<Call("realloc_data", FALSE)>>,
            memory_allocated |-> TRUE]
      ELSE [aborted |-> FALSE, calls |-> <<>>, memory_allocated |-> memory_allocated]

\* enkf_node_alloc_empty: the fields of a node before its domain object exists.
enkf_node_alloc_empty ==
  [data |-> FALSE, memory_allocated |-> FALSE, modified |-> TRUE,
   report_step |-> InitReportStep, state |-> "undefined"]

\* A variant of alloc_domain_object that leaves __memory_allocated alone.
alloc_domain_object_lazy(n) == [n EXCEPT !.data = TRUE]

\* enkf_node_alloc_domain_object applied to the node fields n.
alloc_domain_object(n) == [n EXCEPT !.data = TRUE, !.memory_allocated = TRUE]

\* The capability calls of enkf_node_alloc_domain_object on the node fields n.
alloc_domain_object_calls(n) ==
  (IF n.data THEN <<Call("freef", n.memory_allocated)>> ELSE <<>>)
    \o <<Call("alloc", n.memory_allocated)>>

\* enkf_node_alloc / enkf_node_alloc__: alloc_empty, then alloc_domain_object.
enkf_node_alloc == alloc_domain_object(enkf_node_alloc_empty)

\* The node after enkf_node_alloc(config) for a config of any kind; a kind the
\* switch of enkf_node_alloc_empty does not know ends in util_abort.
InitNode ==
  /\ impl_type \in ImplTypes
  /\ LET n == IF impl_type = "UNKNOWN" THEN enkf_node_alloc_empty ELSE enkf_node_alloc
     IN /\ data = n.data
        /\ memory_allocated = n.memory_allocated
        /\ modified = n.modified
        /\ report_step = n.report_step
        /\ state = n.state
  /\ status = IF impl_type = "UNKNOWN" THEN "aborted" ELSE "running"
  /\ last = [op |-> "enkf_node_alloc", rs |-> InitReportStep, st |-> "undefined",
             iens |-> 0,
             outcome |-> IF impl_type = "UNKNOWN" THEN "aborted" ELSE "returned",
             calls |-> IF impl_type = "UNKNOWN" THEN <<>>
                       ELSE alloc_domain_object_calls(enkf_node_alloc_empty),
             ret |-> void, pre |-> enkf_node_alloc_empty]
  /\ prev = [op |-> "none", rs |-> InitReportStep, st |-> "undefined",
             outcome |-> "returned", modified |-> TRUE]
  /\ valid_args = TRUE
  /\ cache_ops_only = TRUE

\* The store of the node is not looked at.
InitNoStore ==
  /\ store = [followed |-> FALSE, written |-> {}, in_sync |-> FALSE, reads_valid |-> TRUE]
  /\ scenario = -1

\* serial_state_clear: nothing of the node is in the vector.
serial_state_clear ==
  [internal_offset |-> 0, segment_start |-> 0, serial_size |-> 0, offset |-> 0,
   complete |-> FALSE]

\* The node is looked at without its data and without a vector.
InitNoSerial ==
  /\ payload = <<>>
  /\ serial_vector = <<>>
  /\ serial_state = serial_state_clear
  /\ elements_written = 0
  /\ flattened = <<>>
  /\ vector_updated = FALSE

\* The types of rms_type_enum, in the order of rms_type_names.
RmsTypes == {"rms_char_type", "rms_float_type", "rms_double_type", "rms_bool_type",
             "rms_byte_type", "rms_int_type"}

\* No tagkey is looked at.
InitNoTagkey ==
  /\ tagkey = [rms_type |-> "rms_char_type", size |-> 0, data |-> <<>>]
  /\ delta = [rms_type |-> "rms_char_type", size |-> 0, data |-> <<>>]
  /\ tagkey_last = [op |-> "none"]

\* No log is looked at: no file is open and no thread is in a call.
InitNoLog ==
  /\ logh = [filename |-> "NULL", stream |-> 0, log_level |-> 0, mutex |-> 0]
  /\ streams = <<>>
  /\ files = <<>>
  /\ threads = <<>>
  /\ log_status = "running"

\* The state after enkf_node_alloc(config).
\* A tagkey as rms_tagkey_alloc_empty leaves it; no copy.
NoTagkey == [exists |-> FALSE, rms_type |-> "rms_char_type", size |-> 0, data |-> "NULL",
             shared_data |-> FALSE, alloc_size |-> 0]

\* No tagkey with a buffer is looked at.
InitNoRms ==
  /\ heap = <<>>
  /\ src_tagkey = NoTagkey
  /\ new_tagkey = NoTagkey
  /\ rms_file = <<>>
  /\ rms_last = [op |-> "none"]

\* No workflow is looked at.
InitNoWorkflow ==
  /\ script = [compiled |-> FALSE, compile_time |-> 0, cmd_list |-> <<>>]
  /\ src_file = [exists |-> FALSE, parses |-> FALSE, lines |-> <<>>, mtime |-> 0]
  /\ workflow_last = [op |-> "none"]

\* The state after enkf_node_alloc(config).
Init ==
  /\ InitNode
  /\ InitNoStore
  /\ InitNoSerial
  /\ InitNoTagkey
  /\ InitNoLog
  /\ InitNoRms
  /\ InitNoWorkflow

enkf_node_alloc_domain_object ==
  /\ status = "running"
  /\ LET n == alloc_domain_object(Node)
     IN /\ data' = n.data
        /\ memory_allocated' = n.memory_allocated
        /\ modified' = n.modified
        /\ report_step' = n.report_step
        /\ state' = n.state
  /\ Finish("enkf_node_alloc_domain_object", InitReportStep, "undefined", 0, "returned",
            alloc_domain_object_calls(Node), void)
  /\ UNCHANGED impl_type

\* enkf_node_copyc: aborts without a copyc capability, and aborts ("not properly
\* implemented") after enkf_node_alloc(src->config) with one; the source node is
\* not touched.
enkf_node_copyc ==
  /\ status = "running"
  /\ Stop("enkf_node_copyc", InitReportStep, "undefined", 0, "aborted", <<>>)

enkf_node_ecl_write ==
  /\ status = "running"
  /\ IF "ecl_write" \in Registered(impl_type)
       THEN \E o \in CapabilityOutcomes(memory_allocated) :
              IF o = "returned"
                THEN /\ Finish("enkf_node_ecl_write", InitReportStep, "undefined", 0,
                               "returned", <<Call("ecl_write", memory_allocated)>>, void)
                     /\ UNCHANGED <<impl_type, data, memory_allocated, modified,
                                    report_step, state>>
                ELSE Stop("enkf_node_ecl_write", InitReportStep, "undefined", 0, o,
                          <<Call("ecl_write", memory_allocated)>>)
       ELSE /\ Finish("enkf_node_ecl_write", InitReportStep, "undefined", 0, "returned",
                      <<>>, void)
            /\ UNCHANGED <<impl_type, data, memory_allocated, modified, report_step, state>>

\* A variant of enkf_node_ecl_load that returns when the kind has no ecl_load, as
\* its doc comment has it.
enkf_node_ecl_load_optional(rs) ==
  /\ status = "running"
  /\ IF ~FUNC_ASSERT("ecl_load")
       THEN /\ Finish("enkf_node_ecl_load", rs, "undefined", 0, "returned", <<>>, void)
            /\ UNCHANGED <<impl_type, data, memory_allocated, modified, report_step, state>>
       ELSE LET e == enkf_node_ensure_memory
            IN IF e.aborted
                 THEN Stop("enkf_node_ecl_load", rs, "undefined", 0, "aborted", e.calls)
                 ELSE /\ memory_allocated' = e.memory_allocated
                      /\ report_step' = rs
                      /\ state' = "forecast"
                      /\ modified' = FALSE
                      /\ Finish("enkf_node_ecl_load", rs, "undefined", 0, "returned",
                                e.calls \o <<Call("ecl_load", e.memory_allocated)>>, void)
                      /\ UNCHANGED <<impl_type, data>>

\* A variant of enkf_node_ecl_load without the call to enkf_node_ensure_memory.
enkf_node_ecl_load_no_ensure(rs) ==
  /\ status = "running"
  /\ IF ~FUNC_ASSERT("ecl_load")
       THEN Stop("enkf_node_ecl_load", rs, "undefined", 0, "aborted", <<>>)
       ELSE /\ report_step' = rs
            /\ state' = "forecast"
            /\ modified' = FALSE
            /\ Finish("enkf_node_ecl_load", rs, "undefined", 0, "returned",
                      <<Call("ecl_load", memory_allocated)>>, void)
            /\ UNCHANGED <<impl_type, data, memory_allocated>>

enkf_node_ecl_load(rs) ==
  /\ status = "running"
  /\ IF ~FUNC_ASSERT("ecl_load")
       THEN Stop("enkf_node_ecl_load", rs, "undefined", 0, "aborted", <<>>)
       ELSE LET e == enkf_node_ensure_memory
            IN IF e.aborted
                 THEN Stop("enkf_node_ecl_load", rs, "undefined", 0, "aborted", e.calls)
                 ELSE /\ memory_allocated' = e.memory_allocated
                      /\ report_step' = rs
                      /\ state' = "forecast"
                      /\ modified' = FALSE
                      /\ Finish("enkf_node_ecl_load", rs, "undefined", 0, "returned",
                                e.calls \o <<Call("ecl_load", e.memory_allocated)>>, void)
                      /\ UNCHANGED <<impl_type, data>>

\* enkf_node_ecl_load_static hands node->data to ecl_static_kw_init, so it is
\* called on the nodes of static keywords only.
enkf_node_ecl_load_static(rs) ==
  /\ status = "running"
  /\ impl_type = "STATIC"
  /\ memory_allocated' = TRUE
  /\ report_step' = rs
  /\ state' = "forecast"
  /\ modified' = FALSE
  /\ Finish("enkf_node_ecl_load_static", rs, "undefined", 0, "returned", <<>>, void)
  /\ UNCHANGED <<impl_type, data>>

\* A variant of enkf_node_fwrite that does not clear __modified.
enkf_node_fwrite_keeps_modified(rs, st) ==
  /\ status = "running"
  /\ IF ~memory_allocated
       THEN Stop("enkf_node_fwrite", rs, st, 0, "aborted", <<>>)
       ELSE IF ~FUNC_ASSERT("fwrite_f")
         THEN Stop("enkf_node_fwrite", rs, st, 0, "aborted", <<>>)
         ELSE \E data_written \in BOOLEAN :
                /\ report_step' = rs
                /\ state' = st
                /\ Finish("enkf_node_fwrite", rs, st, 0, "returned",
                          <<CallReturning("fwrite_f", memory_allocated, data_written)>>,
                          data_written)
                /\ UNCHANGED <<impl_type, data, memory_allocated, modified>>

\* A variant of enkf_node_fwrite without the check of __memory_allocated.
enkf_node_fwrite_unchecked(rs, st) ==
  /\ status = "running"
  /\ IF ~FUNC_ASSERT("fwrite_f")
       THEN Stop("enkf_node_fwrite", rs, st, 0, "aborted", <<>>)
       ELSE \E data_written \in BOOLEAN :
              /\ report_step' = rs
              /\ state' = st
              /\ modified' = FALSE
              /\ Finish("enkf_node_fwrite", rs, st, 0, "returned",
                        <<CallReturning("fwrite_f", memory_allocated, data_written)>>,
                          data_written)
              /\ UNCHANGED <<impl_type, data, memory_allocated>>

\* A variant of enkf_node_fwrite that reports success whatever fwrite_f returned.
enkf_node_fwrite_returns_true(rs, st) ==
  /\ status = "running"
  /\ IF ~memory_allocated
       THEN Stop("enkf_node_fwrite", rs, st, 0, "aborted", <<>>)
       ELSE IF ~FUNC_ASSERT("fwrite_f")
         THEN Stop("enkf_node_fwrite", rs, st, 0, "aborted", <<>>)
         ELSE \E data_written \in BOOLEAN :
                /\ report_step' = rs
                /\ state' = st
                /\ modified' = FALSE
                /\ Finish("enkf_node_fwrite", rs, st, 0, "returned",
                          <<CallReturning("fwrite_f", memory_allocated, data_written)>>,
                          TRUE)
                /\ UNCHANGED <<impl_type, data, memory_allocated>>

enkf_node_fwrite(rs, st) ==
  /\ status = "running"
  /\ IF ~memory_allocated
       THEN Stop("enkf_node_fwrite", rs, st, 0, "aborted", <<>>)
       ELSE IF ~FUNC_ASSERT("fwrite_f")
         THEN Stop("enkf_node_fwrite", rs, st, 0, "aborted", <<>>)
         ELSE \E data_written \in BOOLEAN :
                /\ report_step' = rs
                /\ state' = st
                /\ modified' = FALSE
                /\ Finish("enkf_node_fwrite", rs, st, 0, "returned",
                          <<CallReturning("fwrite_f", memory_allocated, data_written)>>,
                          data_written)
                /\ UNCHANGED <<impl_type, data, memory_allocated>>

enkf_node_fread(rs, st) ==
  /\ status = "running"
  /\ IF rs = report_step /\ st = state /\ ~modified
       THEN /\ Finish("enkf_node_fread", rs, st, 0, "returned", <<>>, void)
            /\ UNCHANGED <<impl_type, data, memory_allocated, modified, report_step, state>>
       ELSE IF ~FUNC_ASSERT("fread_f")
         THEN Stop("enkf_node_fread", rs, st, 0, "aborted", <<>>)
         ELSE LET e == enkf_node_ensure_memory
              IN IF e.aborted
                   THEN Stop("enkf_node_fread", rs, st, 0, "aborted", e.calls)
                   ELSE /\ memory_allocated' = e.memory_allocated
                        /\ modified' = FALSE
                        /\ report_step' = rs
                        /\ state' = st
                        /\ Finish("enkf_node_fread", rs, st, 0, "returned",
                                  e.calls \o <<Call("fread_f", e.memory_allocated)>>, void)
                        /\ UNCHANGED <<impl_type, data>>

\* FUNC_ASSERT on one of the pointers enkf_node_alloc_empty never assigns, and the
\* call through it.  The value read is indeterminate: NULL makes FUNC_ASSERT
\* abort, anything else is called as a function, which is undefined behaviour.
CallUninitialized(op, func) ==
  /\ status = "running"
  /\ func \in UninitializedPointers
  /\ \E o \in {"aborted", "undefined"} :
       Stop(op, InitReportStep, "undefined", 0, o, <<>>)

\* enkf_node_ensemble_fprintf_results for an ensemble whose first member is this
\* node: the FUNC_ASSERT is commented out, so a NULL fprintf_results is called.
enkf_node_ensemble_fprintf_results ==
  /\ status = "running"
  /\ IF "fprintf_results" \notin Registered(impl_type)
       THEN Stop("enkf_node_ensemble_fprintf_results", InitReportStep, "undefined", 0,
                 "undefined", <<>>)
       ELSE \E o \in CapabilityOutcomes(memory_allocated) :
              IF o = "returned"
                THEN /\ Finish("enkf_node_ensemble_fprintf_results", InitReportStep,
                               "undefined", 0, "returned",
                               <<Call("fprintf_results", memory_allocated)>>, void)
                     /\ UNCHANGED <<impl_type, data, memory_allocated, modified,
                                    report_step, state>>
                ELSE Stop("enkf_node_ensemble_fprintf_results", InitReportStep,
                          "undefined", 0, o, <<Call("fprintf_results", memory_allocated)>>)

enkf_node_ens_clear == CallUninitialized("enkf_node_ens_clear", "clear")

\* enkf_node_assert_memory passes.
enkf_node_assert_memory == memory_allocated

\* A variant of enkf_node_serialize that marks the node modified, as
\* enkf_node_deserialize does.
enkf_node_serialize_marks_modified ==
  /\ status = "running"
  /\ IF ~FUNC_ASSERT("serialize")
       THEN Stop("enkf_node_serialize", InitReportStep, "undefined", 0, "aborted", <<>>)
       ELSE IF ~enkf_node_assert_memory
         THEN Stop("enkf_node_serialize", InitReportStep, "undefined", 0, "aborted", <<>>)
         ELSE /\ modified' = TRUE
              /\ Finish("enkf_node_serialize", InitReportStep, "undefined", 0, "returned",
                        <<Call("serialize", memory_allocated)>>, void)
              /\ UNCHANGED <<impl_type, data, memory_allocated, report_step, state>>

enkf_node_serialize ==
  /\ status = "running"
  /\ IF ~FUNC_ASSERT("serialize")
       THEN Stop("enkf_node_serialize", InitReportStep, "undefined", 0, "aborted", <<>>)
       ELSE IF ~enkf_node_assert_memory
         THEN Stop("enkf_node_serialize", InitReportStep, "undefined", 0, "aborted", <<>>)
         ELSE /\ Finish("enkf_node_serialize", InitReportStep, "undefined", 0, "returned",
                        <<Call("serialize", memory_allocated)>>, void)
              /\ UNCHANGED <<impl_type, data, memory_allocated, modified, report_step,
                             state>>

\* A variant of enkf_node_deserialize that leaves __modified alone.
enkf_node_deserialize_keeps_modified ==
  /\ status = "running"
  /\ IF ~FUNC_ASSERT("serialize")
       THEN Stop("enkf_node_deserialize", InitReportStep, "undefined", 0, "aborted", <<>>)
       ELSE IF "deserialize" \notin Registered(impl_type)
         THEN Stop("enkf_node_deserialize", InitReportStep, "undefined", 0, "undefined",
                   <<>>)
         ELSE \E o \in CapabilityOutcomes(memory_allocated) :
                IF o = "returned"
                  THEN /\ Finish("enkf_node_deserialize", InitReportStep, "undefined", 0,
                                 "returned", <<Call("deserialize", memory_allocated)>>,
                                 void)
                       /\ UNCHANGED <<impl_type, data, memory_allocated, modified,
                                      report_step, state>>
                  ELSE Stop("enkf_node_deserialize", InitReportStep, "undefined", 0, o,
                            <<Call("deserialize", memory_allocated)>>)

\* enkf_node_deserialize without FUNC_ASSERT(enkf_node->serialize): the call goes
\* through the deserialize pointer whatever the serialize pointer is.
enkf_node_deserialize_unguarded ==
  /\ status = "running"
  /\ IF "deserialize" \notin Registered(impl_type)
       THEN Stop("enkf_node_deserialize", InitReportStep, "undefined", 0, "undefined",
                 <<>>)
       ELSE \E o \in CapabilityOutcomes(memory_allocated) :
              IF o = "returned"
                THEN /\ modified' = TRUE
                     /\ Finish("enkf_node_deserialize", InitReportStep, "undefined", 0,
                               "returned", <<Call("deserialize", memory_allocated)>>,
                               void)
                     /\ UNCHANGED <<impl_type, data, memory_allocated, report_step,
                                    state>>
                ELSE Stop("enkf_node_deserialize", InitReportStep, "undefined", 0, o,
                          <<Call("deserialize", memory_allocated)>>)

\* enkf_node_deserialize: the guard is on the serialize pointer, the call goes
\* through the deserialize pointer, and nothing looks at __memory_allocated.
enkf_node_deserialize ==
  /\ status = "running"
  /\ IF ~FUNC_ASSERT("serialize")
       THEN Stop("enkf_node_deserialize", InitReportStep, "undefined", 0, "aborted", <<>>)
       ELSE IF "deserialize" \notin Registered(impl_type)
         THEN Stop("enkf_node_deserialize", InitReportStep, "undefined", 0, "undefined",
                   <<>>)
         ELSE \E o \in CapabilityOutcomes(memory_allocated) :
                IF o = "returned"
                  THEN /\ modified' = TRUE
                       /\ Finish("enkf_node_deserialize", InitReportStep, "undefined", 0,
                                 "returned", <<Call("deserialize", memory_allocated)>>,
                                 void)
                       /\ UNCHANGED <<impl_type, data, memory_allocated, report_step,
                                      state>>
                  ELSE Stop("enkf_node_deserialize", InitReportStep, "undefined", 0, o,
                            <<Call("deserialize", memory_allocated)>>)

enkf_node_sqrt == CallUninitialized("enkf_node_sqrt", "isqrt")

enkf_node_scale == CallUninitialized("enkf_node_scale", "scale")

enkf_node_iadd == CallUninitialized("enkf_node_iadd", "iadd")

enkf_node_iaddsqr == CallUninitialized("enkf_node_iaddsqr", "iaddsqr")

enkf_node_imul == CallUninitialized("enkf_node_imul", "imul")

enkf_node_initialize(iens) ==
  /\ status = "running"
  /\ IF "initialize" \in Registered(impl_type)
       THEN LET e == enkf_node_ensure_memory
            IN IF e.aborted
                 THEN Stop("enkf_node_initialize", InitReportStep, "undefined", iens,
                           "aborted", e.calls)
                 ELSE /\ memory_allocated' = e.memory_allocated
                      /\ report_step' = 0
                      /\ state' = "analyzed"
                      /\ modified' = TRUE
                      /\ Finish("enkf_node_initialize", InitReportStep, "undefined", iens,
                                "returned",
                                e.calls \o <<Call("initialize", e.memory_allocated)>>,
                                void)
                      /\ UNCHANGED <<impl_type, data>>
       ELSE /\ Finish("enkf_node_initialize", InitReportStep, "undefined", iens,
                      "returned", <<>>, void)
            /\ UNCHANGED <<impl_type, data, memory_allocated, modified, report_step, state>>

\* A variant of enkf_node_free_data that does not reset __report_step.
enkf_node_free_data_keeps_step ==
  /\ status = "running"
  /\ IF ~FUNC_ASSERT("free_data")
       THEN Stop("enkf_node_free_data", InitReportStep, "undefined", 0, "aborted", <<>>)
       ELSE /\ memory_allocated' = FALSE
            /\ state' = "undefined"
            /\ modified' = TRUE
            /\ Finish("enkf_node_free_data", InitReportStep, "undefined", 0, "returned",
                      <<Call("free_data", memory_allocated)>>, void)
            /\ UNCHANGED <<impl_type, data, report_step>>

\* A variant of enkf_node_free_data that does not set __modified.
enkf_node_free_data_keeps_modified ==
  /\ status = "running"
  /\ IF ~FUNC_ASSERT("free_data")
       THEN Stop("enkf_node_free_data", InitReportStep, "undefined", 0, "aborted", <<>>)
       ELSE /\ memory_allocated' = FALSE
            /\ report_step' = InitReportStep
            /\ state' = "undefined"
            /\ Finish("enkf_node_free_data", InitReportStep, "undefined", 0, "returned",
                      <<Call("free_data", memory_allocated)>>, void)
            /\ UNCHANGED <<impl_type, data, modified>>

\* A variant of enkf_node_free_data that returns at once when the node holds no
\* memory.
enkf_node_free_data_guarded ==
  /\ status = "running"
  /\ IF ~FUNC_ASSERT("free_data")
       THEN Stop("enkf_node_free_data", InitReportStep, "undefined", 0, "aborted", <<>>)
       ELSE IF ~memory_allocated
         THEN /\ Finish("enkf_node_free_data", InitReportStep, "undefined", 0,
                        "returned", <<>>, void)
              /\ UNCHANGED <<impl_type, data, memory_allocated, modified, report_step,
                             state>>
         ELSE /\ memory_allocated' = FALSE
              /\ report_step' = InitReportStep
              /\ state' = "undefined"
              /\ modified' = TRUE
              /\ Finish("enkf_node_free_data", InitReportStep, "undefined", 0,
                        "returned", <<Call("free_data", memory_allocated)>>, void)
              /\ UNCHANGED <<impl_type, data>>

enkf_node_free_data ==
  /\ status = "running"
  /\ IF ~FUNC_ASSERT("free_data")
       THEN Stop("enkf_node_free_data", InitReportStep, "undefined", 0, "aborted", <<>>)
       ELSE /\ memory_allocated' = FALSE
            /\ report_step' = InitReportStep
            /\ state' = "undefined"
            /\ modified' = TRUE
            /\ Finish("enkf_node_free_data", InitReportStep, "undefined", 0, "returned",
                      <<Call("free_data", memory_allocated)>>, void)
            /\ UNCHANGED <<impl_type, data>>

enkf_node_clear == CallUninitialized("enkf_node_clear", "clear")

(***************************************************************************)
(* Serialization: enkf_node_serialize, enkf_node_deserialize and           *)
(* enkf_node_clear_serial_state with the data, the serial_state and the    *)
(* vector they work on.                                                    *)
(***************************************************************************)

\* Number of elements of the data of the node.
PayloadSize == 3

\* Number of elements the vector of the caller holds.
VectorSize == 2

\* The values of an element; element i of the data starts as i, and 0 is what
\* the vector holds before anything is written to it.
Values == 0 .. PayloadSize

Min(a, b) == IF a < b THEN a ELSE b

\* serial_state_complete: all of the data has been copied to the vector.
serial_state_complete(ss) == ss.complete

\* A variant of the serialize capability that copies the rest of the data when
\* all of it fits and nothing when it does not.
serialize_whole_or_nothing(p, ss, current_serial_offset, vec) ==
  IF serial_state_complete(ss)
    THEN [elements_added |-> 0, serial_state |-> ss, serial_vector |-> vec]
    ELSE LET left == Len(p) - ss.internal_offset
             n == IF left <= Len(vec) - current_serial_offset THEN left ELSE 0
         IN [elements_added |-> n,
             serial_state |->
               [internal_offset |-> ss.internal_offset + n,
                segment_start |-> ss.internal_offset,
                serial_size |-> n,
                offset |-> current_serial_offset,
                complete |-> (ss.internal_offset + n = Len(p))],
             serial_vector |->
               [i \in DOMAIN vec |->
                  IF current_serial_offset < i /\ i <= current_serial_offset + n
                    THEN p[ss.internal_offset + (i - current_serial_offset)]
                    ELSE vec[i]]]

\* The serialize capability of a kind: copy elements of the data p to the vector
\* vec from current_serial_offset on, starting at the element the serial_state ss
\* stopped at, as many as are left and fit.  The result is the number of elements
\* added, the serial_state and the vector.
serialize(p, ss, current_serial_offset, vec) ==
  IF serial_state_complete(ss)
    THEN [elements_added |-> 0, serial_state |-> ss, serial_vector |-> vec]
    ELSE LET n == Min(Len(p) - ss.internal_offset, Len(vec) - current_serial_offset)
         IN [elements_added |-> n,
             serial_state |->
               [internal_offset |-> ss.internal_offset + n,
                segment_start |-> ss.internal_offset,
                serial_size |-> n,
                offset |-> current_serial_offset,
                complete |-> (ss.internal_offset + n = Len(p))],
             serial_vector |->
               [i \in DOMAIN vec |->
                  IF current_serial_offset < i /\ i <= current_serial_offset + n
                    THEN p[ss.internal_offset + (i - current_serial_offset)]
                    ELSE vec[i]]]

\* A variant of the deserialize capability that reads the vector from its
\* start, whatever offset the segment was written at.
deserialize_from_start(p, ss, vec) ==
  [i \in DOMAIN p |->
     IF ss.segment_start < i /\ i <= ss.segment_start + ss.serial_size
       THEN vec[i - ss.segment_start]
       ELSE p[i]]

\* The deserialize capability of a kind: copy the segment the serial_state ss
\* recorded from the vector vec back to the elements of the data p it came from.
\* The result is the data.
deserialize(p, ss, vec) ==
  [i \in DOMAIN p |->
     IF ss.segment_start < i /\ i <= ss.segment_start + ss.serial_size
       THEN vec[ss.offset + (i - ss.segment_start)]
       ELSE p[i]]

\* The node with its data, a vector nothing was written to and a cleared
\* serial_state.
InitSerial ==
  /\ InitNode
  /\ InitNoStore
  /\ payload = [i \in 1 .. PayloadSize |-> i]
  /\ serial_vector = [i \in 1 .. VectorSize |-> 0]
  /\ serial_state = serial_state_clear
  /\ elements_written = 0
  /\ flattened = [i \in 1 .. PayloadSize |-> 0]
  /\ vector_updated = FALSE
  /\ InitNoTagkey
  /\ InitNoLog
  /\ InitNoRms
  /\ InitNoWorkflow

\* An operation on the serialization that ended the process before it wrote
\* anything.
StopSerial(op, outcome, calls) ==
  /\ Record(op, InitReportStep, "undefined", 0, outcome, calls, void)
  /\ UNCHANGED <<impl_type, data, memory_allocated, modified, report_step, state>>
  /\ UNCHANGED <<serialVars, tagkeyVars, logVars, rmsVars, workflowVars>>

\* The history of the copies to the vector after a call of serialize that
\* returned r for the serial_state ss.
SerializeHistory(ss, r) ==
  /\ elements_written' = elements_written + r.elements_added
  /\ flattened' =
       [i \in DOMAIN flattened |->
          IF ~serial_state_complete(ss) /\ ss.internal_offset < i
             /\ i <= ss.internal_offset + r.elements_added
            THEN flattened[i] + 1
            ELSE flattened[i]]
  /\ vector_updated' = (serial_state_complete(ss) /\ vector_updated)

\* A variant of enkf_node_serialize that reports complete on every call.
enkf_node_serialize_vector_always_complete(current_serial_offset) ==
  /\ status = "running"
  /\ IF ~FUNC_ASSERT("serialize")
       THEN StopSerial("enkf_node_serialize", "aborted", <<>>)
       ELSE IF ~enkf_node_assert_memory
         THEN StopSerial("enkf_node_serialize", "aborted", <<>>)
         ELSE LET r == serialize(payload, serial_state, current_serial_offset,
                                 serial_vector)
              IN /\ serial_state' = r.serial_state
                 /\ serial_vector' = r.serial_vector
                 /\ SerializeHistory(serial_state, r)
                 /\ Record("enkf_node_serialize", InitReportStep, "undefined", 0,
                           "returned", <<Call("serialize", memory_allocated)>>,
                           [elements_added |-> r.elements_added, complete |-> TRUE])
                 /\ UNCHANGED <<impl_type, data, memory_allocated, modified,
                                report_step, state, payload, tagkeyVars, logVars, rmsVars, workflowVars>>

\* enkf_node_serialize with the data, the serial_state and the vector.
enkf_node_serialize_vector(current_serial_offset) ==
  /\ status = "running"
  /\ IF ~FUNC_ASSERT("serialize")
       THEN StopSerial("enkf_node_serialize", "aborted", <<>>)
       ELSE IF ~enkf_node_assert_memory
         THEN StopSerial("enkf_node_serialize", "aborted", <<>>)
         ELSE LET r == serialize(payload, serial_state, current_serial_offset,
                                 serial_vector)
              IN /\ serial_state' = r.serial_state
                 /\ serial_vector' = r.serial_vector
                 /\ SerializeHistory(serial_state, r)
                 /\ Record("enkf_node_serialize", InitReportStep, "undefined", 0,
                           "returned", <<Call("serialize", memory_allocated)>>,
                           [elements_added |-> r.elements_added,
                            complete |-> serial_state_complete(r.serial_state)])
                 /\ UNCHANGED <<impl_type, data, memory_allocated, modified,
                                report_step, state, payload, tagkeyVars, logVars, rmsVars, workflowVars>>

\* A variant of enkf_node_deserialize without the FUNC_ASSERT.
enkf_node_deserialize_vector_unasserted ==
  /\ status = "running"
  /\ IF "deserialize" \notin Registered(impl_type)
       THEN StopSerial("enkf_node_deserialize", "undefined", <<>>)
       ELSE \E o \in CapabilityOutcomes(memory_allocated) :
              IF o = "returned"
                THEN /\ payload' = deserialize(payload, serial_state, serial_vector)
                     /\ modified' = TRUE
                     /\ Record("enkf_node_deserialize", InitReportStep, "undefined", 0,
                               "returned", <<Call("deserialize", memory_allocated)>>,
                               void)
                     /\ UNCHANGED <<impl_type, data, memory_allocated, report_step,
                                    state, serial_vector, serial_state,
                                    elements_written, flattened, vector_updated,
                                    tagkeyVars, logVars, rmsVars, workflowVars>>
                ELSE StopSerial("enkf_node_deserialize", o,
                                <<Call("deserialize", memory_allocated)>>)

\* enkf_node_deserialize with the data, the serial_state and the vector.
enkf_node_deserialize_vector ==
  /\ status = "running"
  /\ IF ~FUNC_ASSERT("serialize")
       THEN StopSerial("enkf_node_deserialize", "aborted", <<>>)
       ELSE IF "deserialize" \notin Registered(impl_type)
         THEN StopSerial("enkf_node_deserialize", "undefined", <<>>)
         ELSE \E o \in CapabilityOutcomes(memory_allocated) :
                IF o = "returned"
                  THEN /\ payload' = deserialize(payload, serial_state, serial_vector)
                       /\ modified' = TRUE
                       /\ Record("enkf_node_deserialize", InitReportStep, "undefined",
                                 0, "returned",
                                 <<Call("deserialize", memory_allocated)>>, void)
                       /\ UNCHANGED <<impl_type, data, memory_allocated, report_step,
                                      state, serial_vector, serial_state,
                                      elements_written, flattened, vector_updated,
                                      tagkeyVars, logVars, rmsVars, workflowVars>>
                  ELSE StopSerial("enkf_node_deserialize", o,
                                  <<Call("deserialize", memory_allocated)>>)

\* enkf_node_clear_serial_state: serial_state_clear, for a new pass over the
\* data.
enkf_node_clear_serial_state ==
  /\ status = "running"
  /\ serial_state' = serial_state_clear
  /\ elements_written' = 0
  /\ flattened' = [i \in DOMAIN flattened |-> 0]
  /\ Record("enkf_node_clear_serial_state", InitReportStep, "undefined", 0, "returned",
            <<>>, void)
  /\ UNCHANGED <<impl_type, data, memory_allocated, modified, report_step, state,
                 payload, serial_vector, vector_updated, tagkeyVars, logVars, rmsVars, workflowVars>>

\* The caller of enkf_node_serialize and enkf_node_deserialize writes element i
\* of its vector between the two.
serial_vector_update(i, v) ==
  /\ status = "running"
  /\ serial_vector' = [serial_vector EXCEPT ![i] = v]
  /\ vector_updated' = TRUE
  /\ Record("serial_vector_update", InitReportStep, "undefined", 0, "returned", <<>>,
            void)
  /\ UNCHANGED <<impl_type, data, memory_allocated, modified, report_step, state,
                 payload, serial_state, elements_written, flattened, tagkeyVars, logVars, rmsVars, workflowVars>>

NextSerial ==
  \/ \E current_serial_offset \in 0 .. VectorSize :
       enkf_node_serialize_vector(current_serial_offset)
  \/ enkf_node_deserialize_vector
  \/ enkf_node_clear_serial_state
  \/ \E i \in 1 .. VectorSize : serial_vector_update(i, 0)

SpecSerial == InitSerial /\ [][NextSerial]_vars

(***************************************************************************)
(* The arithmetic of rms_tagkey.c on two tagkeys.                          *)
(***************************************************************************)

\* Largest size of a tagkey.
MaxSize == 2

\* Largest value of an element of a tagkey before the operation.
MaxValue == 2

\* Largest factor handed to rms_tagkey_inplace_add_scaled.
MaxFactor == 2

\* The tagkeys of at most MaxSize elements: rms_type, size and the size elements
\* of data.
Tagkeys ==
  UNION {[rms_type : RmsTypes, size : {n}, data : [1 .. n -> 0 .. MaxValue]] :
           n \in 0 .. MaxSize}

\* A variant of rms_tagkey_assert_fnum that lets every rms_type pass.
rms_tagkey_assert_fnum_any_type(t) == t.rms_type \in RmsTypes

\* rms_tagkey_assert_fnum returns: the tagkey is of float or of double.
rms_tagkey_assert_fnum(t) == t.rms_type \in {"rms_float_type", "rms_double_type"}

\* rms_tagkey_assert_fnum2 returns: both tagkeys are float or double, of one size
\* and one type.
rms_tagkey_assert_fnum2(tagkey1, tagkey2) ==
  /\ rms_tagkey_assert_fnum(tagkey1)
  /\ rms_tagkey_assert_fnum(tagkey2)
  /\ ~(tagkey1.size # tagkey2.size \/ tagkey1.rms_type # tagkey2.rms_type)

\* The case of rms_float_type run on the data of a tagkey of double, which is
\* where the case of rms_double_type falls through to for want of a break.  The
\* loop reads and writes the first size floats of the buffer, the bytes of the
\* first (size + 1) \div 2 doubles, through a float pointer: the behaviour is
\* undefined, and what the build makes of it leaves any value in these doubles.
FloatLoopOverDoubles(d) ==
  {r \in [DOMAIN d -> (0 .. MaxValue) \cup {d[i] : i \in DOMAIN d}] :
     \A i \in DOMAIN d : i > (Len(d) + 1) \div 2 => r[i] = d[i]}

\* The data the switch (tagkey->rms_type) of an operation can leave in t, with r
\* the data after the loop of the rms_type of t: the case of rms_double_type
\* runs on into the case of rms_float_type, and there is no case for any other
\* type.
SwitchFallThrough(t, r) ==
  CASE t.rms_type = "rms_double_type" -> FloatLoopOverDoubles(r)
    [] t.rms_type = "rms_float_type" -> {r}
    [] OTHER -> {t.data}

\* One of the three operations ran: record it with the operands it found.
TagkeyFinish(op, factor, outcome) ==
  /\ tagkey_last' = [op |-> op, factor |-> factor, outcome |-> outcome,
                     tagkey |-> tagkey, delta |-> delta]
  /\ UNCHANGED <<nodeVars, serialVars, logVars, rmsVars, workflowVars>>

\* abort() in rms_tagkey_assert_fnum or rms_tagkey_assert_fnum2.
TagkeyAbort(op, factor) ==
  /\ TagkeyFinish(op, factor, "aborted")
  /\ UNCHANGED <<tagkey, delta>>

\* Two tagkeys of any type and size, and a node that plays no part.
InitTagkey ==
  /\ InitNode
  /\ InitNoStore
  /\ impl_type = "FIELD"
  /\ InitNoSerial
  /\ tagkey \in Tagkeys
  /\ delta \in Tagkeys
  /\ tagkey_last = [op |-> "none", factor |-> 0, outcome |-> "returned",
                    tagkey |-> tagkey, delta |-> delta]
  /\ InitNoLog
  /\ InitNoRms
  /\ InitNoWorkflow

rms_tagkey_inplace_add ==
  /\ tagkey_last.op = "none"
  /\ IF ~rms_tagkey_assert_fnum2(tagkey, delta)
       THEN TagkeyAbort("rms_tagkey_inplace_add", 0)
       ELSE \E r \in SwitchFallThrough(tagkey,
                       [i \in 1 .. tagkey.size |-> tagkey.data[i] + delta.data[i]]) :
              /\ tagkey' = [tagkey EXCEPT !.data = r]
              /\ delta' = delta
              /\ TagkeyFinish("rms_tagkey_inplace_add", 0, "returned")

rms_tagkey_inplace_add_scaled(factor) ==
  /\ tagkey_last.op = "none"
  /\ IF ~rms_tagkey_assert_fnum2(tagkey, delta)
       THEN TagkeyAbort("rms_tagkey_inplace_add_scaled", factor)
       ELSE \E r \in SwitchFallThrough(tagkey,
                       [i \in 1 .. tagkey.size |->
                          tagkey.data[i] + delta.data[i] * factor]) :
              /\ tagkey' = [tagkey EXCEPT !.data = r]
              /\ delta' = delta
              /\ TagkeyFinish("rms_tagkey_inplace_add_scaled", factor, "returned")

rms_tagkey_inplace_mul ==
  /\ tagkey_last.op = "none"
  /\ IF ~rms_tagkey_assert_fnum2(tagkey, delta)
       THEN TagkeyAbort("rms_tagkey_inplace_mul", 0)
       ELSE \E r \in SwitchFallThrough(tagkey,
                       [i \in 1 .. tagkey.size |-> tagkey.data[i] * delta.data[i]]) :
              /\ tagkey' = [tagkey EXCEPT !.data = r]
              /\ delta' = delta
              /\ TagkeyFinish("rms_tagkey_inplace_mul", 0, "returned")

NextTagkey ==
  \/ rms_tagkey_inplace_add
  \/ \E factor \in 0 .. MaxFactor : rms_tagkey_inplace_add_scaled(factor)
  \/ rms_tagkey_inplace_mul

SpecTagkey == InitTagkey /\ [][NextTagkey]_vars

(***************************************************************************)
(* The node with the snapshots written for it.                             *)
(***************************************************************************)

\* A node after enkf_node_alloc(config), and a store with no snapshot of it.
InitStore ==
  /\ InitNode
  /\ impl_type # "UNKNOWN"
  /\ store = [followed |-> TRUE, written |-> {}, in_sync |-> FALSE, reads_valid |-> TRUE]
  /\ scenario = -1
  /\ InitNoSerial
  /\ InitNoTagkey
  /\ InitNoLog
  /\ InitNoRms
  /\ InitNoWorkflow

\* The operations that load, write and change the data of the node, with the
\* report steps and states of stored snapshots.
NextStore ==
  \/ \E iens \in 0 .. MaxIens : enkf_node_initialize(iens)
  \/ \E rs \in 0 .. MaxReportStep, st \in States \ {"undefined"} : enkf_node_fread(rs, st)
  \/ \E rs \in 0 .. MaxReportStep, st \in States \ {"undefined"} : enkf_node_fwrite(rs, st)
  \/ \E rs \in 0 .. MaxReportStep : enkf_node_ecl_load(rs)
  \/ enkf_node_deserialize
  \/ enkf_node_free_data
  \/ enkf_node_ens_clear
  \/ enkf_node_sqrt
  \/ enkf_node_scale
  \/ enkf_node_iadd
  \/ enkf_node_imul

SpecStore == InitStore /\ [][NextStore]_vars

(***************************************************************************)
(* The calls of Scenario, in any order, on a new node.                     *)
(***************************************************************************)

\* A node after enkf_node_alloc(config) with its data, a cleared serial_state and
\* a vector with room for all of the data that nothing was written to.
InitScenario ==
  /\ InitNode
  /\ impl_type # "UNKNOWN"
  /\ store = [followed |-> FALSE, written |-> {}, in_sync |-> FALSE, reads_valid |-> TRUE]
  /\ scenario = 0
  /\ payload = [i \in 1 .. PayloadSize |-> i]
  /\ serial_vector = [i \in 1 .. PayloadSize |-> 0]
  /\ serial_state = serial_state_clear
  /\ elements_written = 0
  /\ flattened = [i \in 1 .. PayloadSize |-> 0]
  /\ vector_updated = FALSE
  /\ InitNoTagkey
  /\ InitNoLog
  /\ InitNoRms
  /\ InitNoWorkflow

NextScenario ==
  \/ \E iens \in 0 .. MaxIens : enkf_node_initialize(iens)
  \/ \E rs \in 0 .. MaxReportStep, st \in States : enkf_node_fwrite(rs, st)
  \/ \E rs \in 0 .. MaxReportStep, st \in States : enkf_node_fread(rs, st)
  \/ enkf_node_scale
  \/ \E current_serial_offset \in 0 .. 1 :
       enkf_node_serialize_vector(current_serial_offset)

SpecScenario == InitScenario /\ [][NextScenario]_vars

(***************************************************************************)
(* log.c: threads that add messages to a log and swap the file of it.      *)
(***************************************************************************)

\* Number of threads.
MaxThreads == 2

\* Largest number of calls of log_add_message by one thread.
MaxMessages == 2

\* Largest number of calls of log_reset_filename by one thread.
MaxResets == 1

\* Largest log_level and message_level.
MaxLevel == 1

Threads == 1 .. MaxThreads

\* The file names handed to log_reset_filename; "NULL" is filename == NULL.
LogFiles == {"a.log", "b.log"}

\* A thread that is in no call of the log.
ThreadIdle == [pc |-> "idle", message_level |-> 0, filename |-> "NULL", messages |-> 0,
               resets |-> 0, accepted |-> FALSE, written |-> FALSE, synced |-> FALSE]

\* The line that thread t writes in its next call of log_add_message.
Line(t) == <<t, threads[t].messages + 1>>

\* log_alloc_new(filename, log_level) with a filename that is not NULL:
\* pthread_mutex_init, then log_reset_filename has opened the file.
InitLog ==
  /\ InitNode
  /\ InitNoStore
  /\ impl_type = "FIELD"
  /\ InitNoSerial
  /\ InitNoTagkey
  /\ InitNoRms
  /\ InitNoWorkflow
  /\ \E filename \in LogFiles, log_level \in 0 .. MaxLevel :
       /\ logh = [filename |-> filename, stream |-> 1, log_level |-> log_level,
                  mutex |-> 0]
       /\ streams = <<[filename |-> filename, open |-> TRUE, buffer |-> <<>>]>>
  /\ files = [f \in LogFiles |-> <<>>]
  /\ threads = [t \in Threads |-> ThreadIdle]
  /\ log_status = "running"

\* A step of thread t in log.c that leaves thread t at pc.
LogStep(t, pc) ==
  /\ threads' = [threads EXCEPT ![t].pc = pc]
  /\ UNCHANGED <<nodeVars, serialVars, tagkeyVars, rmsVars, workflowVars>>

\* A variant of pthread_mutex_lock that does not wait for the mutex.
pthread_mutex_lock_no_wait(t) == logh' = [logh EXCEPT !.mutex = t]

\* pthread_mutex_lock(&logh->mutex) by thread t returns: the mutex was free.
pthread_mutex_lock(t) ==
  /\ logh.mutex = 0
  /\ logh' = [logh EXCEPT !.mutex = t]

\* pthread_mutex_unlock(&logh->mutex).
pthread_mutex_unlock(t) == logh' = [logh EXCEPT !.mutex = 0]

\* log_include_message.
log_include_message(message_level) == ~(message_level > logh.log_level)

\* The stream is one that fprintf, fseek and fclose may be handed: it is not
\* NULL and fclose has not been called on it.
StreamOpen(s) == s # 0 /\ streams[s].open

\* The behaviour of a call on a stream that is NULL or closed is undefined.
\* Of what a build makes of it two outcomes are followed: the process ends
\* with a signal, or the call returns and has done nothing, which leaves the
\* threads as th.
UndefinedStreamUse(th) ==
  /\ \/ /\ log_status' = "crashed"
        /\ threads' = threads
     \/ /\ log_status' = log_status
        /\ threads' = th
  /\ UNCHANGED <<nodeVars, serialVars, tagkeyVars, rmsVars, workflowVars>>

\* log_add_message up to pthread_mutex_lock: util_abort if logh->stream is NULL.
log_add_message_begin(t, message_level) ==
  /\ log_status = "running"
  /\ threads[t].pc = "idle"
  /\ threads[t].messages < MaxMessages
  /\ IF logh.stream = 0
       THEN /\ log_status' = "aborted"
            /\ threads' = threads
       ELSE /\ log_status' = log_status
            /\ threads' = [threads EXCEPT ![t].pc = "lock",
                                          ![t].message_level = message_level,
                                          ![t].accepted = FALSE,
                                          ![t].written = FALSE,
                                          ![t].synced = FALSE]
  /\ UNCHANGED <<nodeVars, serialVars, tagkeyVars, rmsVars, workflowVars>>
  /\ UNCHANGED <<logh, streams, files>>

\* pthread_mutex_lock in log_add_message.
log_add_message_lock(t) ==
  /\ log_status = "running"
  /\ threads[t].pc = "lock"
  /\ pthread_mutex_lock(t)
  /\ LogStep(t, "include")
  /\ UNCHANGED <<streams, files, log_status>>

\* log_include_message, and for a message that is included the fprintf of the
\* line to logh->stream, which puts it in the buffer of the stream.  One call of
\* fprintf holds the lock of the FILE, so the line goes in as a whole.  The
\* message is not duplicated (dup_stream is NULL).
log_add_message_write(t) ==
  /\ log_status = "running"
  /\ threads[t].pc = "include"
  /\ IF ~log_include_message(threads[t].message_level)
       THEN /\ LogStep(t, "unlock")
            /\ UNCHANGED <<streams, log_status>>
       ELSE IF StreamOpen(logh.stream)
         THEN /\ streams' = [streams EXCEPT ![logh.stream].buffer = Append(@, Line(t))]
              /\ threads' = [threads EXCEPT ![t].pc = "sync", ![t].accepted = TRUE,
                                            ![t].written = TRUE]
              /\ UNCHANGED <<nodeVars, serialVars, tagkeyVars, rmsVars, workflowVars>>
              /\ log_status' = log_status
         ELSE /\ UndefinedStreamUse([threads EXCEPT ![t].pc = "sync",
                                                    ![t].accepted = TRUE])
              /\ streams' = streams
  /\ UNCHANGED <<logh, files>>

\* log_sync: fsync(logh->fd), which fails with EBADF and nothing else if the fd
\* was closed, and fseek(logh->stream, 0, SEEK_END), which writes the buffer of
\* the stream to the file.
log_sync(t) ==
  IF StreamOpen(logh.stream)
    THEN /\ files' = [files EXCEPT ![streams[logh.stream].filename] =
                                      @ \o streams[logh.stream].buffer]
         /\ streams' = [streams EXCEPT ![logh.stream].buffer = <<>>]
         /\ threads' = [threads EXCEPT ![t].pc = "unlock", ![t].synced = TRUE]
         /\ UNCHANGED <<nodeVars, serialVars, tagkeyVars, rmsVars, workflowVars>>
         /\ log_status' = log_status
    ELSE /\ UndefinedStreamUse([threads EXCEPT ![t].pc = "unlock"])
         /\ UNCHANGED <<streams, files>>

\* log_sync in log_add_message.
log_add_message_sync(t) ==
  /\ log_status = "running"
  /\ threads[t].pc = "sync"
  /\ log_sync(t)
  /\ logh' = logh

\* pthread_mutex_unlock in log_add_message, and the return of it.
log_add_message_unlock(t) ==
  /\ log_status = "running"
  /\ threads[t].pc = "unlock"
  /\ pthread_mutex_unlock(t)
  /\ threads' = [threads EXCEPT ![t].pc = "idle", ![t].messages = @ + 1]
  /\ UNCHANGED <<nodeVars, serialVars, tagkeyVars, rmsVars, workflowVars>>
  /\ UNCHANGED <<streams, files, log_status>>

\* log_reset_filename up to pthread_mutex_lock: fclose of logh->stream if it is
\* not NULL, which writes the buffer of the stream to the file, and the
\* assignment of logh->filename.  unlink removes the file only if it has no
\* lines.  The stream is closed while logh->stream still points to it, and
\* fclose of a stream that was closed before is undefined.
log_reset_filename_close(t, filename) ==
  /\ log_status = "running"
  /\ threads[t].pc = "idle"
  /\ threads[t].resets < MaxResets
  /\ logh' = [logh EXCEPT !.filename = filename]
  /\ \E th \in {[threads EXCEPT ![t].pc = "reset_lock", ![t].filename = filename]} :
       IF logh.stream = 0
         THEN /\ threads' = th
              /\ UNCHANGED <<nodeVars, serialVars, tagkeyVars, rmsVars, workflowVars>>
              /\ UNCHANGED <<streams, files, log_status>>
         ELSE IF streams[logh.stream].open
           THEN /\ files' = [files EXCEPT ![streams[logh.stream].filename] =
                                             @ \o streams[logh.stream].buffer]
                /\ streams' = [streams EXCEPT ![logh.stream].buffer = <<>>,
                                              ![logh.stream].open = FALSE]
                /\ threads' = th
                /\ UNCHANGED <<nodeVars, serialVars, tagkeyVars, rmsVars, workflowVars>>
                /\ log_status' = log_status
           ELSE /\ UndefinedStreamUse(th)
                /\ UNCHANGED <<streams, files>>

\* pthread_mutex_lock in log_reset_filename.
log_reset_filename_lock(t) ==
  /\ log_status = "running"
  /\ threads[t].pc = "reset_lock"
  /\ pthread_mutex_lock(t)
  /\ LogStep(t, "reset_open")
  /\ UNCHANGED <<streams, files, log_status>>

\* util_mkdir_fopen(filename, "a+") and fileno of the new stream, or NULL and -1
\* for a filename that is NULL.
log_reset_filename_open(t) ==
  /\ log_status = "running"
  /\ threads[t].pc = "reset_open"
  /\ IF threads[t].filename # "NULL"
       THEN /\ streams' = Append(streams, [filename |-> threads[t].filename,
                                           open |-> TRUE, buffer |-> <<>>])
            /\ logh' = [logh EXCEPT !.stream = Len(streams) + 1]
       ELSE /\ streams' = streams
            /\ logh' = [logh EXCEPT !.stream = 0]
  /\ LogStep(t, "reset_unlock")
  /\ UNCHANGED <<files, log_status>>

\* pthread_mutex_unlock in log_reset_filename, and the return of it.
log_reset_filename_unlock(t) ==
  /\ log_status = "running"
  /\ threads[t].pc = "reset_unlock"
  /\ pthread_mutex_unlock(t)
  /\ threads' = [threads EXCEPT ![t].pc = "idle", ![t].resets = @ + 1]
  /\ UNCHANGED <<nodeVars, serialVars, tagkeyVars, rmsVars, workflowVars>>
  /\ UNCHANGED <<streams, files, log_status>>

log_set_level(log_level) ==
  /\ log_status = "running"
  /\ log_level # logh.log_level
  /\ logh' = [logh EXCEPT !.log_level = log_level]
  /\ UNCHANGED <<nodeVars, serialVars, tagkeyVars, rmsVars, workflowVars>>
  /\ UNCHANGED <<streams, files, threads, log_status>>

NextLog ==
  \/ \E t \in Threads, message_level \in 0 .. MaxLevel :
       log_add_message_begin(t, message_level)
  \/ \E t \in Threads : log_add_message_lock(t)
  \/ \E t \in Threads : log_add_message_write(t)
  \/ \E t \in Threads : log_add_message_sync(t)
  \/ \E t \in Threads : log_add_message_unlock(t)
  \/ \E t \in Threads, filename \in LogFiles \cup {"NULL"} :
       log_reset_filename_close(t, filename)
  \/ \E t \in Threads : log_reset_filename_lock(t)
  \/ \E t \in Threads : log_reset_filename_open(t)
  \/ \E t \in Threads : log_reset_filename_unlock(t)
  \/ \E log_level \in 0 .. MaxLevel : log_set_level(log_level)

SpecLog == InitLog /\ [][NextLog]_vars

(***************************************************************************)
(* rms_tagkey.c: a tagkey with the buffer of its data is copied, changed,  *)
(* written to a stream and loaded from one.                                *)
(***************************************************************************)

\* Largest number of calls on the tagkeys after rms_tagkey_alloc_complete.
MaxOps == 3

\* The buffers: the one the caller hands to rms_tagkey_alloc_complete and to
\* rms_tagkey_set_data, and the ones realloc returns for the data of the two
\* tagkeys.  A pointer is one of these or "NULL".
Buffers == {"caller", "src_data", "new_data"}

\* rms_type_size, per rms_type.
rms_type_size(rms_type) ==
  CASE rms_type = "rms_char_type" -> 1
    [] rms_type = "rms_float_type" -> 4
    [] rms_type = "rms_double_type" -> 8
    [] rms_type = "rms_bool_type" -> 1
    [] rms_type = "rms_byte_type" -> 1
    [] rms_type = "rms_int_type" -> 4

\* tagkey->data_size of a tagkey that is not of strings read from a stream.
data_size(t) == t.size * rms_type_size(t.rms_type)

\* The first n elements of sequence q, with 0 for the elements q has not.
Resized(q, n) == [i \in 1 .. n |-> IF i <= Len(q) THEN q[i] ELSE 0]

\* The elements of the data of tagkey t.
Payload(t) == IF t.data = "NULL" THEN <<>> ELSE Resized(heap[t.data], t.size)

\* The tagkey an operation is called on.
Tagkey(which) == IF which = "src" THEN src_tagkey ELSE new_tagkey

\* rms_tagkey_alloc_complete(name, size, rms_type, data, shared_data) has
\* returned: rms_tagkey_alloc_data has allocated the data unless it is shared
\* or of no bytes, and rms_tagkey_set_data has copied the data of the caller or,
\* for shared data, pointed the tagkey to it.
InitRms ==
  /\ InitNode
  /\ InitNoStore
  /\ impl_type = "FIELD"
  /\ InitNoSerial
  /\ InitNoTagkey
  /\ InitNoLog
  /\ InitNoWorkflow
  /\ \E rms_type \in RmsTypes, size \in 0 .. MaxSize, shared_data \in BOOLEAN :
       \E d \in [1 .. size -> 1 .. MaxValue] :
         /\ heap = [b \in Buffers |->
                      IF b = "caller" \/ (b = "src_data" /\ ~shared_data) THEN d ELSE <<>>]
         /\ src_tagkey = [exists |-> TRUE, rms_type |-> rms_type, size |-> size,
                          data |-> IF shared_data THEN "caller"
                                   ELSE IF size > 0 THEN "src_data" ELSE "NULL",
                          shared_data |-> shared_data,
                          alloc_size |-> IF shared_data THEN 0
                                         ELSE size * rms_type_size(rms_type)]
  /\ new_tagkey = NoTagkey
  /\ rms_file = <<>>
  /\ rms_last = [op |-> "rms_tagkey_alloc_complete", target |-> "src",
                 outcome |-> "returned", short |-> FALSE, alloc_failed |-> FALSE,
                 calls |-> 0, src_before |-> <<>>, new_before |-> <<>>]

\* The process is running and one more call is made.
RmsRunning == rms_last.outcome = "returned" /\ rms_last.calls < MaxOps

\* A call on the tagkeys ended: record it with the data it found.
RmsFinish(op, target, outcome, short, alloc_failed) ==
  /\ rms_last' = [op |-> op, target |-> target, outcome |-> outcome, short |-> short,
                  alloc_failed |-> alloc_failed, calls |-> rms_last.calls + 1,
                  src_before |-> Payload(src_tagkey), new_before |-> Payload(new_tagkey)]
  /\ UNCHANGED <<nodeVars, serialVars, tagkeyVars, logVars, workflowVars>>

\* The call ended the process, or changed nothing.
RmsUnchanged(op, target, outcome, short, alloc_failed) ==
  /\ RmsFinish(op, target, outcome, short, alloc_failed)
  /\ UNCHANGED <<heap, src_tagkey, new_tagkey, rms_file>>

\* A read or write through a pointer that is NULL: the behaviour is undefined.
\* Of what a build makes of it two outcomes are followed: the process ends
\* with a signal, or the call returns and has changed nothing.
NullAccess(op, target) ==
  \E outcome \in {"crashed", "returned"} : RmsUnchanged(op, target, outcome, FALSE, FALSE)

\* rms_tagkey_copyc(tagkey).  realloc_ok: realloc in rms_tagkey_alloc_data returns
\* a buffer.  shared_data is copied from the tagkey, so for shared data
\* rms_tagkey_alloc_data allocates nothing and memcpy is handed the NULL of
\* new_tagkey->data.
rms_tagkey_copyc(realloc_ok) ==
  /\ RmsRunning
  /\ ~new_tagkey.exists
  /\ LET new == [exists |-> TRUE, rms_type |-> src_tagkey.rms_type,
                 size |-> src_tagkey.size, data |-> "NULL",
                 shared_data |-> src_tagkey.shared_data, alloc_size |-> 0]
         allocates == ~new.shared_data /\ data_size(new) > new.alloc_size
     IN IF allocates /\ ~realloc_ok
          THEN RmsUnchanged("rms_tagkey_copyc", "new", "aborted", FALSE, TRUE)
          ELSE IF allocates
            THEN /\ new_tagkey' = [new EXCEPT !.data = "new_data",
                                              !.alloc_size = data_size(new)]
                 /\ heap' = [heap EXCEPT !["new_data"] = Payload(src_tagkey)]
                 /\ RmsFinish("rms_tagkey_copyc", "new", "returned", FALSE, FALSE)
                 /\ UNCHANGED <<src_tagkey, rms_file>>
            ELSE IF data_size(src_tagkey) = 0
              THEN /\ new_tagkey' = new
                   /\ RmsFinish("rms_tagkey_copyc", "new", "returned", FALSE, FALSE)
                   /\ UNCHANGED <<heap, src_tagkey, rms_file>>
              ELSE \E outcome \in {"crashed", "returned"} :
                     /\ new_tagkey' = IF outcome = "returned" THEN new ELSE new_tagkey
                     /\ RmsFinish("rms_tagkey_copyc", "new", outcome, FALSE, FALSE)
                     /\ UNCHANGED <<heap, src_tagkey, rms_file>>

\* An operation on the elements of a tagkey of float or double that leaves
\* data r in a tagkey of float: rms_tagkey_assert_fnum, then the switch.
InplaceLoop(op, which, r) ==
  LET t == Tagkey(which)
  IN IF ~rms_tagkey_assert_fnum(t)
       THEN RmsUnchanged(op, which, "aborted", FALSE, FALSE)
       ELSE IF t.size = 0
         THEN RmsUnchanged(op, which, "returned", FALSE, FALSE)
         ELSE IF t.data = "NULL"
           THEN NullAccess(op, which)
           ELSE \E after \in SwitchFallThrough([rms_type |-> t.rms_type,
                                                data |-> Payload(t)], r) :
                  /\ heap' = [heap EXCEPT ![t.data] = after]
                  /\ RmsFinish(op, which, "returned", FALSE, FALSE)
                  /\ UNCHANGED <<src_tagkey, new_tagkey, rms_file>>

rms_tagkey_clear(which) ==
  /\ RmsRunning
  /\ Tagkey(which).exists
  /\ InplaceLoop("rms_tagkey_clear", which, [i \in 1 .. Tagkey(which).size |-> 0])

rms_tagkey_scale(which, scale_factor) ==
  /\ RmsRunning
  /\ Tagkey(which).exists
  /\ InplaceLoop("rms_tagkey_scale", which,
                 [i \in 1 .. Tagkey(which).size |-> Payload(Tagkey(which))[i] * scale_factor])

\* rms_tagkey_inplace_add(tagkey, delta) with the one of the two tagkeys for
\* tagkey and the other for delta.
rms_tagkey_inplace_add_to(which) ==
  /\ RmsRunning
  /\ new_tagkey.exists
  /\ LET t == Tagkey(which)
         d == Tagkey(IF which = "src" THEN "new" ELSE "src")
     IN IF ~rms_tagkey_assert_fnum2(t, d)
          THEN RmsUnchanged("rms_tagkey_inplace_add", which, "aborted", FALSE, FALSE)
          ELSE IF t.size > 0 /\ d.data = "NULL"
            THEN NullAccess("rms_tagkey_inplace_add", which)
            ELSE InplaceLoop("rms_tagkey_inplace_add", which,
                             [i \in 1 .. t.size |-> Payload(t)[i] + Payload(d)[i]])

\* rms_tagkey_set_data(tagkey, data) with the buffer of the caller for data,
\* which holds at least the elements of the tagkey.
rms_tagkey_set_data(which) ==
  /\ RmsRunning
  /\ Tagkey(which).exists
  /\ Len(heap["caller"]) >= Tagkey(which).size
  /\ LET t == Tagkey(which)
     IN IF t.shared_data
          THEN /\ src_tagkey' = IF which = "src" THEN [src_tagkey EXCEPT !.data = "caller"]
                                ELSE src_tagkey
               /\ new_tagkey' = IF which = "new" THEN [new_tagkey EXCEPT !.data = "caller"]
                                ELSE new_tagkey
               /\ RmsFinish("rms_tagkey_set_data", which, "returned", FALSE, FALSE)
               /\ UNCHANGED <<heap, rms_file>>
          ELSE IF data_size(t) = 0
            THEN RmsUnchanged("rms_tagkey_set_data", which, "returned", FALSE, FALSE)
            ELSE IF t.data = "NULL"
              THEN NullAccess("rms_tagkey_set_data", which)
              ELSE /\ heap' = [heap EXCEPT ![t.data] = Resized(heap["caller"], t.size)]
                   /\ RmsFinish("rms_tagkey_set_data", which, "returned", FALSE, FALSE)
                   /\ UNCHANGED <<src_tagkey, new_tagkey, rms_file>>

\* What a stream holds where rms_tagkey_load reads, and what the allocations of
\* the call return: the type, whether the tagkey is an array, the size field
\* and whether all four bytes of it are there, whether all bytes of the data
\* are there, and the realloc that fails, if one does.  The strings of the
\* header are whole, and the type is one of three of the types that are not of
\* strings.  No size is given for a size field that is short.
StreamTagkeys ==
  {f \in [rms_type : {"rms_byte_type", "rms_float_type", "rms_double_type"},
          is_array : BOOLEAN, size : 0 .. MaxSize, size_read : {"whole", "short"},
          data_read : {"whole", "short"}, failed_realloc : {"none", "name", "data"}] :
     /\ ~f.is_array => f.size = 1 /\ f.size_read = "whole"
     /\ f.size_read = "short" => f.size = 0}

\* The element that rms_tagkey_fread_data reads from the stream.
StreamValue == MaxValue

\* rms_tagkey_load(tagkey, endian_convert, stream, type_map) on src_tagkey with f
\* in the stream, and without endian_convert: rms_fread_tagkey_header,
\* rms_tagkey_alloc_data, rms_tagkey_fread_data.  The return of the fread of
\* tagkey->size is not looked at: after a short read the size is what the
\* bytes that were read have made of it.  The return of the realloc of
\* tagkey->name is not looked at either, and the name is read to the NULL of it.
rms_tagkey_load(f) ==
  /\ RmsRunning
  /\ LET op == "rms_tagkey_load"
         short_header == f.is_array /\ f.size_read = "short"
         failed_name == f.failed_realloc = "name"
     IN \E size \in IF ~f.is_array THEN {1}
                    ELSE IF f.size_read = "whole" THEN {f.size} ELSE 0 .. MaxSize :
          LET header == [src_tagkey EXCEPT !.rms_type = f.rms_type, !.size = size]
              allocates == ~header.shared_data /\ data_size(header) > header.alloc_size
              t == IF allocates
                     THEN [header EXCEPT !.data = "src_data",
                                         !.alloc_size = data_size(header)]
                     ELSE header
              short_data == data_size(t) > 0 /\ f.data_read = "short"
          IN \/ /\ failed_name
                /\ RmsUnchanged(op, "src", "crashed", FALSE, TRUE)
             \/ IF allocates /\ f.failed_realloc = "data"
                  THEN /\ src_tagkey' = header
                       /\ RmsFinish(op, "src", "aborted", short_header, TRUE)
                       /\ UNCHANGED <<heap, new_tagkey, rms_file>>
                  ELSE IF t.alloc_size < data_size(t) \/ short_data
                    THEN /\ src_tagkey' = t
                         /\ RmsFinish(op, "src", "aborted", short_header \/ short_data,
                                      failed_name)
                         /\ UNCHANGED <<heap, new_tagkey, rms_file>>
                    ELSE /\ src_tagkey' = t
                         /\ heap' = IF data_size(t) > 0
                                      THEN [heap EXCEPT ![t.data] =
                                                          [i \in 1 .. t.size |-> StreamValue]]
                                      ELSE heap
                         /\ RmsFinish(op, "src", "returned", short_header, failed_name)
                         /\ UNCHANGED <<new_tagkey, rms_file>>

\* rms_tagkey_fwrite(tagkey, stream) on src_tagkey.  size_written and
\* data_written: whether fwrite has written all bytes of tagkey->size and of the
\* data.  The return of the fwrite of tagkey->size is not looked at.  The
\* strings of the header are written whole.
rms_tagkey_fwrite(size_written, data_written) ==
  /\ RmsRunning
  /\ data_size(src_tagkey) > 0 => src_tagkey.data # "NULL"
  /\ LET short_header == src_tagkey.size > 1 /\ size_written = "short"
         short_data == data_size(src_tagkey) > 0 /\ data_written = "short"
     IN /\ rms_file' = Append(rms_file,
                              [rms_type |-> src_tagkey.rms_type,
                               is_array |-> src_tagkey.size > 1,
                               size |-> IF short_header THEN -1 ELSE src_tagkey.size,
                               data |-> IF short_data THEN <<>> ELSE Payload(src_tagkey)])
        /\ RmsFinish("rms_tagkey_fwrite", "src",
                     IF short_data THEN "aborted" ELSE "returned",
                     short_header \/ short_data, FALSE)
        /\ UNCHANGED <<heap, src_tagkey, new_tagkey>>

NextRms ==
  \/ \E realloc_ok \in BOOLEAN : rms_tagkey_copyc(realloc_ok)
  \/ \E which \in {"src", "new"} : rms_tagkey_clear(which)
  \/ \E which \in {"src", "new"}, scale_factor \in 0 .. MaxFactor :
       rms_tagkey_scale(which, scale_factor)
  \/ \E which \in {"src", "new"} : rms_tagkey_inplace_add_to(which)
  \/ \E which \in {"src", "new"} : rms_tagkey_set_data(which)
  \/ \E f \in StreamTagkeys : rms_tagkey_load(f)
  \/ \E size_written, data_written \in {"whole", "short"} :
       rms_tagkey_fwrite(size_written, data_written)

SpecRms == InitRms /\ [][NextRms]_vars

(***************************************************************************)
(* The serial_state of a node whose data is freed and allocated again      *)
(* between the calls of enkf_node_serialize.                               *)
(***************************************************************************)

\* The operations that release or allocate the data of the node leave the
\* serial_state alone; what they make of the elements of the data is not
\* followed here.
NextCursor ==
  \/ \E current_serial_offset \in 0 .. VectorSize :
       enkf_node_serialize_vector(current_serial_offset)
  \/ enkf_node_clear_serial_state
  \/ enkf_node_free_data
  \/ \E iens \in 0 .. MaxIens : enkf_node_initialize(iens)
  \/ enkf_node_alloc_domain_object

SpecCursor == InitSerial /\ [][NextCursor]_vars

(***************************************************************************)
(* The loop of a caller that flattens one node to its vector, pass after   *)
(* pass.                                                                   *)
(***************************************************************************)

\* enkf_node_serialize at an offset that leaves room for at least one element
\* in the vector.
serialize_with_room ==
  \E current_serial_offset \in 0 .. VectorSize - 1 :
    enkf_node_serialize_vector(current_serial_offset)

\* A call of enkf_node_serialize with room in the vector, on a serial_state
\* that is not complete yet.
serialize_until_complete ==
  ~serial_state_complete(serial_state) /\ serialize_with_room

\* The caller starts a new pass over the node when the last one is complete.
next_pass == serial_state_complete(serial_state) /\ enkf_node_clear_serial_state

NextProgress ==
  \/ serialize_with_room
  \/ next_pass
  \/ \E i \in 1 .. VectorSize : serial_vector_update(i, 0)

\* The caller keeps calling enkf_node_serialize until complete is returned.
SpecProgress ==
  /\ InitSerial
  /\ [][NextProgress]_vars
  /\ WF_<<status, serialVars>>(serialize_until_complete)

(***************************************************************************)
(* workflow.c: a workflow is compiled from a file that is edited and       *)
(* removed between the calls of workflow_try_compile.                      *)
(***************************************************************************)

\* Largest number of lines of the file.
MaxLines == 2

\* Largest mtime of the file and largest value found in compile_time.
MaxTime == 1

\* The names of the jobs of the joblist.
Jobs == {"job_a", "job_b"}

\* The contents of a file: one job name per line.
SrcLines == UNION {[1 .. n -> Jobs] : n \in 0 .. MaxLines}

\* util_difftime_seconds(start_time, end_time).
util_difftime_seconds(start_time, end_time) == end_time - start_time

\* A variant of workflow_try_compile without vector_clear(script->cmd_list).
try_compile_no_clear(s, f) ==
  IF f.exists
    THEN IF s.compiled /\ util_difftime_seconds(f.mtime, s.compile_time) > 0
      THEN [script |-> s, ret |-> TRUE, parse_failed |-> FALSE]
      ELSE IF f.parses
        THEN [script |-> [s EXCEPT !.compiled = FALSE, !.cmd_list = @ \o f.lines],
              ret |-> TRUE, parse_failed |-> FALSE]
        ELSE [script |-> [s EXCEPT !.compiled = FALSE], ret |-> FALSE,
              parse_failed |-> TRUE]
    ELSE [script |-> s, ret |-> s.compiled, parse_failed |-> FALSE]

\* workflow_try_compile(script) with f the file that script->src_file names: the
\* script after the call, what the call returns, and whether config_parse was
\* called and refused the file.  One cmd is added per line of the file.
\* Nothing assigns true to script->compiled, and nothing assigns compile_time.
try_compile(s, f) ==
  IF f.exists
    THEN IF s.compiled /\ util_difftime_seconds(f.mtime, s.compile_time) > 0
      THEN [script |-> s, ret |-> TRUE, parse_failed |-> FALSE]
      ELSE IF f.parses
        THEN [script |-> [s EXCEPT !.compiled = FALSE, !.cmd_list = f.lines],
              ret |-> TRUE, parse_failed |-> FALSE]
        ELSE [script |-> [s EXCEPT !.compiled = FALSE, !.cmd_list = <<>>],
              ret |-> FALSE, parse_failed |-> TRUE]
    ELSE [script |-> s, ret |-> s.compiled, parse_failed |-> FALSE]

\* The files that script->src_file can name.
SrcFiles == [exists : BOOLEAN, parses : BOOLEAN, lines : SrcLines, mtime : 0 .. MaxTime]

\* workflow_alloc(src_file, joblist) has returned: compiled is false, cmd_list
\* is empty, compile_time is what util_malloc has left there, and
\* workflow_try_compile has run once.
InitWorkflow ==
  /\ InitNode
  /\ InitNoStore
  /\ impl_type = "FIELD"
  /\ InitNoSerial
  /\ InitNoTagkey
  /\ InitNoLog
  /\ InitNoRms
  /\ src_file \in SrcFiles
  /\ \E compile_time \in 0 .. MaxTime :
       LET r == try_compile([compiled |-> FALSE, compile_time |-> compile_time,
                             cmd_list |-> <<>>], src_file)
       IN /\ script = r.script
          /\ workflow_last = [op |-> "workflow_alloc", ret |-> r.ret,
                              parse_failed |-> r.parse_failed,
                              file_exists |-> src_file.exists,
                              cmd_list_before |-> <<>>,
                              compiled_before |-> FALSE,
                              has_compiled |-> r.ret /\ src_file.exists]

\* A call of workflow_try_compile(script).
workflow_try_compile ==
  /\ workflow_last.op # "none"
  /\ LET r == try_compile(script, src_file)
     IN /\ script' = r.script
        /\ workflow_last' = [op |-> "workflow_try_compile", ret |-> r.ret,
                             parse_failed |-> r.parse_failed,
                             file_exists |-> src_file.exists,
                             cmd_list_before |-> script.cmd_list,
                             compiled_before |-> workflow_last.has_compiled,
                             has_compiled |-> \/ workflow_last.has_compiled
                                              \/ r.ret /\ src_file.exists]
  /\ src_file' = src_file
  /\ UNCHANGED <<nodeVars, serialVars, tagkeyVars, logVars, rmsVars>>

\* The file is written by its owner: new lines, which config_parse accepts or
\* not, and a new mtime.
src_file_write(f) ==
  /\ workflow_last.op # "none"
  /\ f.exists
  /\ f # src_file
  /\ src_file' = f
  /\ UNCHANGED <<script, workflow_last>>
  /\ UNCHANGED <<nodeVars, serialVars, tagkeyVars, logVars, rmsVars>>

\* The file is removed.
src_file_remove ==
  /\ workflow_last.op # "none"
  /\ src_file.exists
  /\ src_file' = [src_file EXCEPT !.exists = FALSE]
  /\ UNCHANGED <<script, workflow_last>>
  /\ UNCHANGED <<nodeVars, serialVars, tagkeyVars, logVars, rmsVars>>

NextWorkflow ==
  \/ workflow_try_compile
  \/ \E f \in SrcFiles : src_file_write(f)
  \/ src_file_remove

SpecWorkflow == InitWorkflow /\ [][NextWorkflow]_vars

Next ==
  \/ enkf_node_alloc_domain_object
  \/ enkf_node_copyc
  \/ enkf_node_ecl_write
  \/ \E rs \in ReportSteps : enkf_node_ecl_load(rs)
  \/ \E rs \in ReportSteps : enkf_node_ecl_load_static(rs)
  \/ \E rs \in ReportSteps, st \in States : enkf_node_fwrite(rs, st)
  \/ enkf_node_ensemble_fprintf_results
  \/ \E rs \in ReportSteps, st \in States : enkf_node_fread(rs, st)
  \/ enkf_node_ens_clear
  \/ enkf_node_serialize
  \/ enkf_node_deserialize
  \/ enkf_node_sqrt
  \/ enkf_node_scale
  \/ enkf_node_iadd
  \/ enkf_node_iaddsqr
  \/ enkf_node_imul
  \/ \E iens \in 0 .. MaxIens : enkf_node_initialize(iens)
  \/ enkf_node_free_data
  \/ enkf_node_clear

Spec == Init /\ [][Next]_vars

(***************************************************************************)
(* Properties                                                              *)
(***************************************************************************)

\* The number of calls through capability pointer f that operation l made.
CallCount(l, f) == Cardinality({i \in DOMAIN l.calls : l.calls[i].f = f})

\* The node fields are what they were before the last operation.
NodeUnchanged == Node = last.pre

\* The last operation was enkf_node_fread and its arguments matched a clean node.
FreadMatched ==
  /\ last.op = "enkf_node_fread"
  /\ last.rs = last.pre.report_step
  /\ last.st = last.pre.state
  /\ ~last.pre.modified

\* C1: when enkf_node_fwrite(r, p) has returned and enkf_node_fread(r, p) is the
\* next operation on the node, the load calls no capability at all (so fread_f
\* zero times), returns normally and leaves __state, __report_step, __modified and
\* __memory_allocated as they were.
SkipRead ==
  ( /\ prev.op = "enkf_node_fwrite"
    /\ prev.outcome = "returned"
    /\ last.op = "enkf_node_fread"
    /\ last.rs = prev.rs
    /\ last.st = prev.st )
  => /\ CallCount(last, "fread_f") = 0
     /\ last.calls = <<>>
     /\ last.outcome = "returned"
     /\ NodeUnchanged

\* A load directly after a write of the same (report step, state), for a report
\* step and state that differ from those of a new node.
SkipReadWitness ==
  /\ prev.op = "enkf_node_fwrite"
  /\ prev.outcome = "returned"
  /\ prev.modified
  /\ last.op = "enkf_node_fread"
  /\ last.rs = prev.rs
  /\ last.st = prev.st
  /\ last.rs = 1
  /\ last.st = "forecast"
  /\ last.outcome = "returned"

\* C2: when a node with __modified = false is deserialized and
\* enkf_node_fread(r, p) for its (r, p) is the next operation, the load calls
\* fread_f.
DirtyForcesReload ==
  ( /\ prev.op = "enkf_node_deserialize"
    /\ prev.outcome = "returned"
    /\ ~prev.modified
    /\ last.op = "enkf_node_fread"
    /\ last.rs = last.pre.report_step
    /\ last.st = last.pre.state )
  => CallCount(last, "fread_f") >= 1

\* C3: enkf_node_fread(r, p) skips the read exactly when (p, r) is the node's
\* (__state, __report_step) and __modified is false; otherwise it ensures memory,
\* calls fread_f once and ends in (p, r, not modified) with memory allocated.
FreadTransitionRule ==
  last.op = "enkf_node_fread" =>
    IF FreadMatched
      THEN /\ last.calls = <<>>
           /\ last.outcome = "returned"
           /\ NodeUnchanged
      ELSE /\ last.outcome = "returned"
           /\ CallCount(last, "fread_f") = 1
           /\ state = last.st
           /\ report_step = last.rs
           /\ ~modified
           /\ memory_allocated

\* C4 as claimed: after any sequence of the cache operations, with any report
\* step >= -1 and any state argument, __state is undefined exactly when
\* __report_step is -1.
CacheStateInvariant ==
  cache_ops_only => ((state = "undefined") <=> (report_step = InitReportStep))

\* C4 as amended: the same holds as long as every load and write named a report
\* step >= 0 and a state other than undefined.
CacheStateInvariantValidArgs ==
  valid_args => ((state = "undefined") <=> (report_step = InitReportStep))

\* A node that left the undefined state through calls with valid arguments, went
\* back by enkf_node_free_data and was loaded again.
CacheStateInvariantWitness ==
  /\ valid_args
  /\ cache_ops_only
  /\ prev.op = "enkf_node_free_data"
  /\ last.op = "enkf_node_fread"
  /\ last.outcome = "returned"
  /\ state = "analyzed"
  /\ report_step = 1

\* The capabilities that read or write the data of the domain object.
PayloadCapabilities == {"ecl_write", "ecl_load", "fread_f", "fwrite_f", "serialize",
                        "deserialize", "initialize", "fprintf_results"}

\* C5: none of deserialize, clear, scale, add, multiply, sqrt, serialize,
\* write-to-store and batch report calls a capability that reads or writes the
\* data while __memory_allocated is false.
NoPayloadAccessWhileUnallocated ==
  last.op \in {"enkf_node_deserialize", "enkf_node_clear", "enkf_node_ens_clear",
               "enkf_node_scale", "enkf_node_iadd", "enkf_node_iaddsqr",
               "enkf_node_imul", "enkf_node_sqrt", "enkf_node_serialize",
               "enkf_node_fwrite", "enkf_node_ensemble_fprintf_results"}
  => \A i \in DOMAIN last.calls :
       last.calls[i].f \in PayloadCapabilities => last.calls[i].mem

\* C6 as claimed: the node enkf_node_alloc returns is (undefined, -1, modified)
\* and has no memory allocated.
ConstructedEmpty ==
  (last.op = "enkf_node_alloc" /\ last.outcome = "returned")
  => /\ state = "undefined"
     /\ report_step = InitReportStep
     /\ modified
     /\ ~memory_allocated

\* C6 as amended: the node enkf_node_alloc returns is (undefined, -1, modified),
\* and its domain object is allocated: enkf_node_alloc_domain_object has called
\* the alloc capability and set __memory_allocated, which only the node of
\* enkf_node_alloc_empty, before that call, has false.
ConstructedAllocated ==
  (last.op = "enkf_node_alloc" /\ last.outcome = "returned")
  => /\ state = "undefined"
     /\ report_step = InitReportStep
     /\ modified
     /\ memory_allocated
     /\ data
     /\ CallCount(last, "alloc") = 1
     /\ ~last.pre.memory_allocated

\* A node of a kind with an initialize capability, as enkf_node_alloc returned it.
ConstructedWitness ==
  /\ last.op = "enkf_node_alloc"
  /\ last.outcome = "returned"
  /\ impl_type = "FIELD"
  /\ status = "running"

\* The capability pointer an operation looks at before it calls through it.
GuardedPointer(op) ==
  CASE op = "enkf_node_ecl_write" -> "ecl_write"
    [] op = "enkf_node_ecl_load" -> "ecl_load"
    [] op = "enkf_node_fwrite" -> "fwrite_f"
    [] op = "enkf_node_fread" -> "fread_f"
    [] op = "enkf_node_serialize" -> "serialize"
    [] op = "enkf_node_deserialize" -> "serialize"
    [] op = "enkf_node_initialize" -> "initialize"
    [] op = "enkf_node_free_data" -> "free_data"
    [] op = "enkf_node_copyc" -> "copyc"
    [] OTHER -> "none"

\* The public operations that dispatch to a capability the kind may not bind.
DispatchingOps == {"enkf_node_ecl_write", "enkf_node_ecl_load", "enkf_node_fwrite",
                   "enkf_node_fread", "enkf_node_serialize", "enkf_node_deserialize",
                   "enkf_node_initialize", "enkf_node_free_data", "enkf_node_copyc",
                   "enkf_node_ensemble_fprintf_results"}

\* The capability an operation dispatches to.
Capability(op) ==
  CASE op = "enkf_node_deserialize" -> "deserialize"
    [] op = "enkf_node_ensemble_fprintf_results" -> "fprintf_results"
    [] OTHER -> GuardedPointer(op)

AssertingOps == {"enkf_node_ecl_load", "enkf_node_fwrite", "enkf_node_fread",
                 "enkf_node_serialize", "enkf_node_deserialize", "enkf_node_free_data",
                 "enkf_node_copyc"}

\* The operations that check their pointer and do nothing on NULL.
OptionalOps == {"enkf_node_initialize", "enkf_node_ecl_write"}

InitializeEnds ==
  (last.op = "enkf_node_initialize" /\ "initialize" \in Registered(impl_type))
  => /\ last.outcome = "returned"
     /\ memory_allocated
     /\ state = "analyzed"
     /\ report_step = 0
     /\ modified

\* C9: enkf_node_ecl_load(report_step) on a kind that binds ecl_load ensures
\* memory, calls ecl_load once, on allocated memory, and ends in
\* (forecast, report_step, not modified), whatever the node was before.
EclLoadEnds ==
  (last.op = "enkf_node_ecl_load" /\ "ecl_load" \in Registered(impl_type))
  => /\ last.outcome = "returned"
     /\ memory_allocated
     /\ CallCount(last, "ecl_load") = 1
     /\ \A i \in DOMAIN last.calls : last.calls[i].f = "ecl_load" => last.calls[i].mem
     /\ CallCount(last, "realloc_data") = IF last.pre.memory_allocated THEN 0 ELSE 1
     /\ state = "forecast"
     /\ report_step = last.rs
     /\ ~modified

\* enkf_node_ecl_load on a node whose data had been freed.
EclLoadWitness ==
  /\ last.op = "enkf_node_ecl_load"
  /\ last.outcome = "returned"
  /\ ~last.pre.memory_allocated
  /\ last.pre.state = "undefined"
  /\ last.rs = 1

\* C10: enkf_node_fwrite on a node with __memory_allocated false aborts, without a
\* call to fwrite_f and without a change to the node.
FwriteUnallocatedFatal ==
  (last.op = "enkf_node_fwrite" /\ ~last.pre.memory_allocated)
  => /\ last.outcome = "aborted"
     /\ CallCount(last, "fwrite_f") = 0
     /\ NodeUnchanged

\* enkf_node_fwrite directly after enkf_node_free_data.
FwriteUnallocatedWitness ==
  /\ prev.op = "enkf_node_free_data"
  /\ prev.outcome = "returned"
  /\ last.op = "enkf_node_fwrite"
  /\ ~last.pre.memory_allocated
  /\ status = "aborted"

\* C11: enkf_node_fwrite(rs, st) on a node with __memory_allocated true calls
\* fwrite_f exactly once, ends with __state = st, __report_step = rs, __modified
\* false and the memory still allocated, and returns what fwrite_f returned.
FwriteEnds ==
  (last.op = "enkf_node_fwrite" /\ last.pre.memory_allocated)
  => /\ last.outcome = "returned"
     /\ CallCount(last, "fwrite_f") = 1
     /\ Len(last.calls) = 1
     /\ state = last.st
     /\ report_step = last.rs
     /\ ~modified
     /\ memory_allocated
     /\ last.ret = last.calls[1].ret

\* enkf_node_fwrite of a modified node whose fwrite_f reported that it wrote
\* nothing.
FwriteEndsWitness ==
  /\ last.op = "enkf_node_fwrite"
  /\ last.outcome = "returned"
  /\ last.pre.memory_allocated
  /\ last.pre.modified
  /\ last.rs = 1
  /\ last.st = "analyzed"
  /\ last.ret = FALSE

\* C12: an enkf_node_deserialize that returns leaves __modified true and
\* __state, __report_step and __memory_allocated as they were.
DeserializeEnds ==
  (last.op = "enkf_node_deserialize" /\ last.outcome = "returned")
  => /\ modified
     /\ state = last.pre.state
     /\ report_step = last.pre.report_step
     /\ memory_allocated = last.pre.memory_allocated
     /\ data = last.pre.data

\* enkf_node_deserialize on a clean node that holds a loaded snapshot.
DeserializeEndsWitness ==
  /\ last.op = "enkf_node_deserialize"
  /\ last.outcome = "returned"
  /\ ~last.pre.modified
  /\ last.pre.state = "forecast"
  /\ last.pre.report_step = 1

\* C13: enkf_node_free_data from any state ends with __state undefined,
\* __report_step -1, __modified true and __memory_allocated false.
FreeDataEnds ==
  last.op = "enkf_node_free_data"
  => /\ last.outcome = "returned"
     /\ state = "undefined"
     /\ report_step = InitReportStep
     /\ modified
     /\ ~memory_allocated

\* enkf_node_free_data on a clean node that holds a loaded snapshot.
FreeDataEndsWitness ==
  /\ last.op = "enkf_node_free_data"
  /\ last.outcome = "returned"
  /\ last.pre.memory_allocated
  /\ ~last.pre.modified
  /\ last.pre.state = "forecast"
  /\ last.pre.report_step = 1

\* The last two operations were enkf_node_free_data, one right after the other.
FreeDataTwice ==
  /\ prev.op = "enkf_node_free_data"
  /\ prev.outcome = "returned"
  /\ last.op = "enkf_node_free_data"

\* C14: a second enkf_node_free_data right after a first leaves the node as it
\* was and does not call the free_data capability again.
IdempotentFreeNoCall ==
  FreeDataTwice
  => /\ last.outcome = "returned"
     /\ NodeUnchanged
     /\ CallCount(last, "free_data") = 0

\* C14, amended: a second enkf_node_free_data right after a first leaves the
\* node as it was; the free_data capability is called again, on a node whose
\* __memory_allocated is false.
IdempotentFreeState ==
  FreeDataTwice
  => /\ last.outcome = "returned"
     /\ NodeUnchanged
     /\ last.calls = <<Call("free_data", FALSE)>>

\* Two calls of enkf_node_free_data in a row on a node that held a snapshot.
IdempotentFreeWitness ==
  /\ FreeDataTwice
  /\ last.outcome = "returned"
  /\ ~prev.modified
  /\ ~memory_allocated

\* The last operation got as far as its call of enkf_node_ensure_memory.
ReachedEnsureMemory ==
  \/ last.op = "enkf_node_initialize" /\ "initialize" \in Registered(impl_type)
  \/ last.op = "enkf_node_ecl_load" /\ FUNC_ASSERT("ecl_load")
  \/ last.op = "enkf_node_fread" /\ FUNC_ASSERT("fread_f") /\ ~FreadMatched

\* C15: an operation that reaches enkf_node_ensure_memory calls realloc_data
\* exactly when __memory_allocated was false, and __memory_allocated is true
\* afterwards; so between two calls of enkf_node_free_data realloc_data runs at
\* most once, and once when an operation touches the data.
EnsureMemoryReallocsOnce ==
  ReachedEnsureMemory
  => /\ CallCount(last, "realloc_data") = (IF last.pre.memory_allocated THEN 0 ELSE 1)
     /\ memory_allocated

RoundTrip ==
  [][(/\ last'.op = "enkf_node_deserialize"
      /\ last'.outcome = "returned"
      /\ ~vector_updated)
     => payload' = payload]_<<status, serialVars>>

\* enkf_node_deserialize of a later segment of the data, written to the vector
\* after its first element, with the vector as enkf_node_serialize left it.
RoundTripWitness ==
  /\ last.op = "enkf_node_deserialize"
  /\ last.outcome = "returned"
  /\ prev.op = "enkf_node_serialize"
  /\ ~vector_updated
  /\ serial_state.segment_start > 0
  /\ serial_state.serial_size > 0
  /\ serial_state.offset > 0
  /\ payload = [i \in 1 .. PayloadSize |-> i]

\* C18: on a STATIC node, which has no serialize and no deserialize,
\* enkf_node_serialize and enkf_node_deserialize abort without a call through a
\* pointer and leave the data, the vector, the serial_state and the bookkeeping
\* fields of the node as they were.
StaticRejectsSerialization ==
  [][(/\ impl_type = "STATIC"
      /\ last'.op \in {"enkf_node_serialize", "enkf_node_deserialize"})
     => /\ last'.outcome = "aborted"
        /\ last'.calls = <<>>
        /\ UNCHANGED <<payload, serial_vector, serial_state, data, memory_allocated,
                       modified, report_step, state>>]_<<status, serialVars, modified>>

\* enkf_node_deserialize on a STATIC node, of a vector the caller wrote to.
StaticRejectsSerializationWitness ==
  /\ impl_type = "STATIC"
  /\ prev.op = "serial_vector_update"
  /\ last.op = "enkf_node_deserialize"
  /\ status = "aborted"
  /\ vector_updated

\* The operands the last operation on the tagkeys found were of one floating
\* type and one size.
SameFloatingOperands ==
  /\ tagkey_last.tagkey.rms_type \in {"rms_float_type", "rms_double_type"}
  /\ tagkey_last.tagkey.rms_type = tagkey_last.delta.rms_type
  /\ tagkey_last.tagkey.size = tagkey_last.delta.size

\* C19: rms_tagkey_inplace_add_scaled(a, b, f) on two tagkeys of one floating
\* type and one size returns with a[i] + f * b[i] in every element of a and
\* with b as it was.
AddScaledCorrect ==
  (tagkey_last.op = "rms_tagkey_inplace_add_scaled" /\ SameFloatingOperands)
  => /\ tagkey_last.outcome = "returned"
     /\ tagkey.rms_type = tagkey_last.tagkey.rms_type
     /\ tagkey.size = tagkey_last.tagkey.size
     /\ \A i \in 1 .. tagkey.size :
          tagkey.data[i]
            = tagkey_last.tagkey.data[i] + tagkey_last.factor * tagkey_last.delta.data[i]
     /\ delta = tagkey_last.delta

\* C20: rms_tagkey_inplace_add, rms_tagkey_inplace_add_scaled and
\* rms_tagkey_inplace_mul on two tagkeys that differ in size or in type, or of
\* which one is not of float or double, abort with both tagkeys as they were.
MismatchAborts ==
  (tagkey_last.op # "none" /\ ~SameFloatingOperands)
  => /\ tagkey_last.outcome = "aborted"
     /\ tagkey = tagkey_last.tagkey
     /\ delta = tagkey_last.delta

\* rms_tagkey_inplace_mul of two tagkeys of double that differ in size only.
MismatchAbortsWitness ==
  /\ tagkey_last.op = "rms_tagkey_inplace_mul"
  /\ tagkey_last.outcome = "aborted"
  /\ tagkey.rms_type = "rms_double_type"
  /\ delta.rms_type = "rms_double_type"
  /\ tagkey.size = 2
  /\ delta.size = 1

\* C21: enkf_node_copyc on a node of a kind with a copyc returns (the new node,
\* with the config of the source and a copy of its data), and only on a kind
\* without copyc does it abort.
CopycReturns ==
  last.op = "enkf_node_copyc"
  => (last.outcome = "returned" <=> "copyc" \in Registered(impl_type))

\* C23: enkf_node_ensemble_fprintf_results for a kind without fprintf_results
\* aborts on a check of the pointer, with no call through it.
FprintfResultsChecked ==
  (/\ last.op = "enkf_node_ensemble_fprintf_results"
   /\ "fprintf_results" \notin Registered(impl_type))
  => /\ last.outcome = "aborted"
     /\ last.calls = <<>>

\* C30: enkf_node_initialize on a kind with initialize, and enkf_node_fread
\* when it does not skip the read, return with __memory_allocated true, from
\* every state of a node of every kind.
WritersAlwaysCallable ==
  (\/ last.op = "enkf_node_initialize" /\ "initialize" \in Registered(impl_type)
   \/ last.op = "enkf_node_fread" /\ FUNC_ASSERT("fread_f") /\ ~FreadMatched)
  => /\ last.outcome = "returned"
     /\ memory_allocated

\* C29: whenever __modified is false and the memory is allocated, the data of
\* the node is the snapshot stored under (__state, __report_step), provided
\* every read was of a snapshot that had been written.
CacheSound ==
  (store.reads_valid /\ ~modified /\ memory_allocated) => store.in_sync

\* C24: on a new node whose data can be initialized and serialized, after the
\* calls of Scenario so far: initialize has left (analyzed, 0, modified); the
\* write has left (analyzed, 0, not modified); the load has returned without a
\* call of fread_f; scale has returned; and serialize to offset 0 of the vector
\* has returned the size of the data and complete, with twice the initialized
\* values in the vector.
ScenarioHolds ==
  {"initialize", "serialize"} \subseteq Registered(impl_type)
  => /\ scenario >= 1 => last.outcome = "returned"
     /\ scenario = 1 => state = "analyzed" /\ report_step = 0 /\ modified
     /\ scenario = 2 => state = "analyzed" /\ report_step = 0 /\ ~modified
     /\ scenario = 3 => last.calls = <<>> /\ NodeUnchanged
     /\ (scenario = 5 /\ serial_state.offset = 0)
          => /\ last.ret.elements_added = PayloadSize
             /\ last.ret.complete
             /\ serial_vector = [i \in 1 .. PayloadSize |-> 2 * i]

\* The lines of thread t in sequence q, in the order of q.
LinesOf(t, q) == SelectSeq(q, LAMBDA l : l[1] = t)

\* C25: at most one thread is between its write of a message and the sync that
\* follows it; no stream holds more than one line that is not synced; and in
\* every file each line is there once and the lines of one thread are in the
\* order the thread wrote them.
LogWritesSerialized ==
  /\ Cardinality({t \in Threads : threads[t].pc = "sync"}) <= 1
  /\ \A s \in DOMAIN streams : Len(streams[s].buffer) <= 1
  /\ \A f \in DOMAIN files, t \in Threads :
       \A i, j \in DOMAIN LinesOf(t, files[f]) :
         i < j => LinesOf(t, files[f])[i][2] < LinesOf(t, files[f])[j][2]

\* A thread has written its line and not yet synced while another thread waits
\* for the mutex in log_add_message, with a line of an earlier message in a file.
LogWritesSerializedWitness ==
  \E t1, t2 \in Threads :
    /\ threads[t1].pc = "sync"
    /\ threads[t1].written
    /\ threads[t2].pc = "lock"
    /\ \E f \in DOMAIN files : files[f] # <<>>

\* C26: when log_add_message is about to release the mutex, a message that was
\* included has been written and synced, and for a message that was not
\* included nothing was written and nothing synced.
SyncAfterWrite ==
  \A t \in Threads :
    threads[t].pc = "unlock"
    => /\ threads[t].accepted => threads[t].written /\ threads[t].synced
       /\ ~threads[t].accepted => ~threads[t].written /\ ~threads[t].synced

\* C27: log_add_message never hands fprintf or log_sync a stream that is closed
\* or NULL, and when it is about to release the mutex the line of a message
\* that was included is in exactly one file.
SwapSafe ==
  \A t \in Threads :
    /\ (threads[t].pc = "include" /\ log_include_message(threads[t].message_level))
         => StreamOpen(logh.stream)
    /\ threads[t].pc = "sync" => StreamOpen(logh.stream)
    /\ (threads[t].pc = "unlock" /\ threads[t].accepted)
         => Cardinality({f \in DOMAIN files :
                           LinesOf(t, files[f]) # <<>>
                           /\ \E i \in DOMAIN files[f] : files[f][i] = Line(t)}) = 1

\* The operations that change the elements of a tagkey in place.
TagkeyMutations ==
  {"rms_tagkey_clear", "rms_tagkey_scale", "rms_tagkey_inplace_add", "rms_tagkey_set_data"}

\* C22: rms_tagkey_copyc ends with a copy that holds the elements of the
\* tagkey, or with abort() for want of memory; the data of the copy is never
\* the buffer of the data of the tagkey; and clear, scale, add and set_data on
\* the one of the two leaves the elements of the other as they were.
CopyIndependent ==
  /\ rms_last.op = "rms_tagkey_copyc"
       => /\ rms_last.outcome \in {"returned", "aborted"}
          /\ rms_last.outcome = "aborted" => rms_last.alloc_failed
          /\ rms_last.outcome = "returned"
               => /\ Payload(new_tagkey) = Payload(src_tagkey)
                  /\ Payload(src_tagkey) = rms_last.src_before
  /\ (new_tagkey.exists /\ new_tagkey.data # "NULL") => new_tagkey.data # src_tagkey.data
  /\ (new_tagkey.exists /\ rms_last.op \in TagkeyMutations)
       => /\ rms_last.target = "new" => Payload(src_tagkey) = rms_last.src_before
          /\ rms_last.target = "src" => Payload(new_tagkey) = rms_last.new_before

\* C28: a call of rms_tagkey_load or rms_tagkey_fwrite in which a transfer was
\* short or an allocation failed ends with abort().
IOIntegrity ==
  (/\ rms_last.op \in {"rms_tagkey_load", "rms_tagkey_fwrite"}
   /\ rms_last.short \/ rms_last.alloc_failed)
  => rms_last.outcome = "aborted"

\* C31: enkf_node_ecl_load on a kind that does not bind ecl_load returns, calls
\* no capability and leaves the bookkeeping fields of the node as they were.
EclLoadOptional ==
  (last.op = "enkf_node_ecl_load" /\ "ecl_load" \notin Registered(impl_type))
  => /\ last.outcome = "returned"
     /\ last.calls = <<>>
     /\ NodeUnchanged

\* C32: after enkf_node_free_data, after enkf_node_alloc_domain_object and after
\* an operation in which enkf_node_ensure_memory has called realloc_data, the
\* serial_state is at element 0 of the data and not complete.
CursorResetOnShapeChange ==
  (/\ last.outcome = "returned"
   /\ \/ last.op \in {"enkf_node_free_data", "enkf_node_alloc_domain_object"}
      \/ CallCount(last, "realloc_data") > 0)
  => /\ serial_state.internal_offset = 0
     /\ ~serial_state.complete

\* C33: a call of workflow_try_compile that finds no file returns true if an
\* earlier call has compiled the file and false if none has, and leaves the
\* cmd_list as it was.
CompiledSurvivesRemoval ==
  (workflow_last.op = "workflow_try_compile" /\ ~workflow_last.file_exists)
  => /\ workflow_last.ret = workflow_last.compiled_before
     /\ script.cmd_list = workflow_last.cmd_list_before

\* C34: a call of workflow_try_compile in which config_parse refuses the file
\* returns false and leaves compiled false and the cmd_list empty.
FailedCompileLeavesNothing ==
  (workflow_last.op = "workflow_try_compile" /\ workflow_last.parse_failed)
  => /\ ~workflow_last.ret
     /\ ~script.compiled
     /\ script.cmd_list = <<>>

\* config_parse has refused the file of a workflow that held the cmds of an
\* earlier compile.
FailedCompileLeavesNothingWitness ==
  /\ workflow_last.op = "workflow_try_compile"
  /\ workflow_last.parse_failed
  /\ workflow_last.compiled_before
  /\ workflow_last.cmd_list_before # <<>>

\* C35: in the dispatch table every kind binds serialize exactly when it binds
\* deserialize, so an enkf_node_deserialize that passed its guard on the
\* serialize pointer made its call through a bound deserialize pointer.
GuardCoversDeserialize ==
  /\ \A k \in ImplTypes :
       ("serialize" \in Registered(k)) <=> ("deserialize" \in Registered(k))
  /\ (last.op = "enkf_node_deserialize" /\ last.outcome # "aborted")
     => /\ "serialize" \in Registered(impl_type)
        /\ "deserialize" \in Registered(impl_type)
        /\ CallCount(last, "deserialize") = 1

\* enkf_node_deserialize passed the guard and the call through deserialize
\* returned.
GuardCoversDeserializeWitness ==
  /\ last.op = "enkf_node_deserialize"
  /\ last.outcome = "returned"
  /\ "serialize" \in Registered(impl_type)
  /\ CallCount(last, "deserialize") = 1

\* __state, __report_step, __modified and __memory_allocated of a node n.
CacheTuple(n) == <<n.state, n.report_step, n.modified, n.memory_allocated>>

\* The operations C36 says leave the cache tuple alone.
FrameOps == {"enkf_node_serialize", "enkf_node_ens_clear", "enkf_node_clear",
             "enkf_node_scale", "enkf_node_iadd", "enkf_node_iaddsqr",
             "enkf_node_imul", "enkf_node_sqrt"}

\* C36 as stated: serialize, clear, scale, iadd, iaddsqr, imul and sqrt leave
\* __state, __report_step, __modified and __memory_allocated as they were, and
\* an operation on a constructed node that changed one of the four is
\* initialize, fread, ecl_load, fwrite, deserialize or free_data.
FrameOnlyCacheOps ==
  /\ last.op \in FrameOps => CacheTuple(Node) = CacheTuple(last.pre)
  /\ (last.op # "enkf_node_alloc" /\ CacheTuple(Node) # CacheTuple(last.pre))
     => last.op \in CacheOps

\* C36, amended: serialize, clear, scale, iadd, iaddsqr, imul and sqrt leave
\* __state, __report_step, __modified and __memory_allocated as they were, and
\* an operation on a constructed node that changed one of the four is
\* initialize, fread, ecl_load, fwrite, deserialize, free_data,
\* enkf_node_ecl_load_static or enkf_node_alloc_domain_object.
FrameOfCacheTuple ==
  /\ last.op \in FrameOps => CacheTuple(Node) = CacheTuple(last.pre)
  /\ (last.op # "enkf_node_alloc" /\ CacheTuple(Node) # CacheTuple(last.pre))
     => last.op \in CacheOps \cup {"enkf_node_ecl_load_static",
                                  "enkf_node_alloc_domain_object"}

\* enkf_node_serialize returned on a clean node that holds a loaded snapshot.
FrameOfCacheTupleWitness ==
  /\ last.op = "enkf_node_serialize"
  /\ last.outcome = "returned"
  /\ ~modified
  /\ memory_allocated
  /\ report_step # InitReportStep

\* The node binds serialize, its data is allocated and its serial_state is as
\* serial_state_clear leaves it.
CursorReset ==
  /\ status = "running"
  /\ "serialize" \in Registered(impl_type)
  /\ memory_allocated
  /\ serial_state = serial_state_clear

\* The last call of enkf_node_serialize returned complete = true.
CompleteReturned ==
  /\ last.op = "enkf_node_serialize"
  /\ last.outcome = "returned"
  /\ last.ret.complete

\* C37: while the caller keeps calling enkf_node_serialize with room for at
\* least one element, a call that returns complete = false has added at least
\* one element; every call on a serial_state that is not complete moves
\* internal_offset forward, by at least one element and not past the size of the
\* data, so that at most as many calls as the data has elements come before
\* complete; and from a cleared serial_state complete = true is returned in the
\* end.
SerializeProgress ==
  /\ []((/\ last.op = "enkf_node_serialize"
         /\ last.outcome = "returned"
         /\ ~last.ret.complete)
        => last.ret.elements_added >= 1)
  /\ [][(/\ last'.op = "enkf_node_serialize"
         /\ last'.outcome = "returned"
         /\ ~serial_state_complete(serial_state))
        => /\ serial_state'.internal_offset > serial_state.internal_offset
           /\ serial_state'.internal_offset <= Len(payload)
           /\ serial_state_complete(serial_state')
                <=> serial_state'.internal_offset = Len(payload)]_<<status, serialVars>>
  /\ (CursorReset ~> CompleteReturned)

\* complete = true was returned by a call that was not the first of its pass
\* and copied the last elements of the data.
SerializeProgressWitness ==
  /\ CompleteReturned
  /\ serial_state.segment_start > 0
  /\ last.ret.elements_added >= 1
  /\ elements_written = Len(payload)


====
